---------------------------- MODULE Spec2Model ----------------------------
(***************************************************************************)
(* Model of the wheelbarrow drawing generator                              *)
(* (src/generate_wheelbarrow_drawings.py and src/wheelbarrow/).            *)
(*                                                                         *)
(* Numbers.  The program computes in floating-point millimetres.  The      *)
(* model computes in fixed point: a length is an integer number of         *)
(* 1/Unit mm, a scale factor is a number of tenths (1 = 0.1, 10 = 1.0),    *)
(* an angle is an integer number of 1/AngRes degrees, and a sine or cosine *)
(* is an integer number of 1/TrigOne.  Every division rounds to nearest,   *)
(* as a floating-point division does at its own (much finer) resolution.   *)
(***************************************************************************)
EXTENDS Integers, Sequences, FiniteSets, TLC

(* Resolution of the fixed-point model: units per millimetre. *)
Unit == 10

(* Resolution of angles: units per degree. *)
AngRes == 1000

(* How many times main may run in one process. *)
MaxRuns == 2

---------------------------------------------------------------------------
(* Arithmetic helpers *)

Abs(a) == IF a < 0 THEN -a ELSE a

Max2(a, b) == IF a >= b THEN a ELSE b

(* a / b for b # 0, rounded to the nearest integer. *)
RDiv(a, b) ==
    IF b > 0 THEN (a + (b \div 2)) \div b
    ELSE ((0 - a) + ((0 - b) \div 2)) \div (0 - b)

(* sin(d degrees) * 32768 for d = 0 .. 90: the first quadrant of math.sin. *)
SinTab ==
    <<0, 572, 1144, 1715, 2286, 2856, 3425, 3993, 4560, 5126, 5690, 6252, 6813,
      7371, 7927, 8481, 9032, 9580, 10126, 10668, 11207, 11743, 12275, 12803,
      13328, 13848, 14365, 14876, 15384, 15886, 16384, 16877, 17364, 17847,
      18324, 18795, 19261, 19720, 20174, 20622, 21063, 21498, 21926, 22348,
      22763, 23170, 23571, 23965, 24351, 24730, 25102, 25466, 25822, 26170,
      26510, 26842, 27166, 27482, 27789, 28088, 28378, 28660, 28932, 29197,
      29452, 29698, 29935, 30163, 30382, 30592, 30792, 30983, 31164, 31336,
      31499, 31651, 31795, 31928, 32052, 32166, 32270, 32365, 32449, 32524,
      32588, 32643, 32688, 32723, 32748, 32763, 32768>>

(* The fixed-point value of 1.0 for sines and cosines. *)
TrigOne == SinTab[91]

Deg90 == 90 * AngRes

Deg180 == 180 * AngRes

Deg360 == 360 * AngRes

(* Linear interpolation in a table of sines: entry d, r/AngRes of the way on. *)
SinInterp(tab, d, r) ==
    IF d >= 90 THEN tab[91]
    ELSE tab[d + 1] + RDiv((tab[d + 2] - tab[d + 1]) * r, AngRes)

(* sin of an angle in [0, 90] degrees. *)
SinQ(a) == SinInterp(SinTab, a \div AngRes, a % AngRes)

(* The first-quadrant angle with the same sine, up to sign, as m in [0, 360). *)
FoldAngle(m) ==
    IF m <= Deg90 THEN m
    ELSE IF m <= Deg180 THEN Deg180 - m
    ELSE IF m <= Deg180 + Deg90 THEN m - Deg180
    ELSE Deg360 - m

(* The sign of the sine of m in [0, 360). *)
SinSign(m) == IF m <= Deg180 THEN 1 ELSE 0 - 1

(* math.sin(math.radians(a)) for any angle a, times TrigOne. *)
SinDeg(a) == SinSign(a % Deg360) * SinQ(FoldAngle(a % Deg360))

(* math.cos(math.radians(a)) for any angle a, times TrigOne. *)
CosDeg(a) == SinDeg(a + Deg90)

(* r * s / one rounded, without leaving 32 bits: r a length, s a sine. *)
MulFrac(r, s, one) == (r \div one) * s + RDiv((r % one) * s, one)

MulTrig(r, s) == MulFrac(r, s, TrigOne)

(* sin(a) * ax <= cos(a) * ay: the angle a is not past the vector (ax, ay). *)
NotPast(ay, ax, a) == SinQ(a) * ax <= SinQ(Deg90 - a) * ay

(* The largest angle in [lo, hi), hi <= 90 degrees, that is not past the *)
(* vector (ax, ay), ax, ay >= 0: bisection.                             *)
RECURSIVE AtanSearch(_, _, _, _)
AtanStep(ay, ax, lo, hi, mid) ==
    IF NotPast(ay, ax, mid)
    THEN AtanSearch(ay, ax, mid, hi)
    ELSE AtanSearch(ay, ax, lo, mid)

AtanSearch(ay, ax, lo, hi) ==
    IF hi - lo <= 1 THEN lo ELSE AtanStep(ay, ax, lo, hi, (lo + hi) \div 2)

(* atan(ay / ax) in [0, 90] degrees for ax, ay >= 0; atan2(0, 0) = 0. *)
AtanQ(ay, ax) ==
    IF ax = 0 /\ ay = 0 THEN 0
    ELSE IF ax = 0 THEN Deg90
    ELSE AtanSearch(ay, ax, 0, Deg90)

(* The same for a vector divided by k, to keep the products in 32 bits. *)
AtanShort(ay, ax, k) == AtanQ(RDiv(ay, k), RDiv(ax, k))

(* The quadrant of (dx, dy) applied to its first-quadrant angle q. *)
Quadrant(dy, dx, q) ==
    IF dx >= 0
    THEN (IF dy >= 0 THEN q ELSE 0 - q)
    ELSE (IF dy >= 0 THEN Deg180 - q ELSE q - Deg180)

(* math.degrees(math.atan2(dy, dx)), in (-180, 180] degrees. *)
Atan2Deg(dy, dx) ==
    Quadrant(dy, dx,
             AtanShort(Abs(dy), Abs(dx), (Max2(Abs(dy), Abs(dx)) \div TrigOne) + 1))

---------------------------------------------------------------------------
(* Helpers of the drawing layer *)

Pt(x, y) == <<x, y>>

(* polygon_wire: a closed Draft wire through the points, not yet labelled. *)
polygon_wire(points) ==
    [kind |-> "wire", Label |-> "", pts |-> points,
     center |-> Pt(0, 0), radius |-> 0]

(* circle: a Draft circle, not yet labelled. *)
circle(center, radius) ==
    [kind |-> "circle", Label |-> "", pts |-> <<>>,
     center |-> center, radius |-> radius]

(* rectangle_xywh *)
rectangle_xywh(x, y, w, h) ==
    polygon_wire(<<Pt(x, y), Pt(x + w, y), Pt(x + w, y + h), Pt(x, y + h)>>)

(* The angle t of arc_top_panel's sample i: angA + (angB - angA) * (i / segments). *)
ArcAngle(angA, sweep, i, segments) ==
    angA + (sweep \div segments) * i + RDiv((sweep % segments) * i, segments)

(* arc_top_panel's sample at angle t on the circle of centre (x_c, y_c). *)
ArcPoint(x_c, y_c, R, t) ==
    Pt(x_c + MulTrig(R, CosDeg(t)), y_c + MulTrig(R, SinDeg(t)))

(* arc_top_panel's loop: segments + 1 samples from angA to angB. *)
ArcSamples(x_c, y_c, R, angA, angB, segments) ==
    [i \in 1..(segments + 1) |->
        ArcPoint(x_c, y_c, R, ArcAngle(angA, angB - angA, i - 1, segments))]

(* arc_top_panel: "if angB < angA: angB += 360.0", then the loop. *)
ArcSweep(x_c, y_c, R, angA, angB, segments) ==
    ArcSamples(x_c, y_c, R, angA,
               IF angB < angA THEN angB + Deg360 ELSE angB, segments)

(* arc_top_panel: the angles of A = (x, y + body_h) and B = (x + w, y + body_h) *)
(* seen from the centre, then the arc.                                         *)
ArcAbout(x, w, yb, x_c, y_c, R, segments) ==
    ArcSweep(x_c, y_c, R,
             Atan2Deg(yb - y_c, x - x_c), Atan2Deg(yb - y_c, x + w - x_c), segments)

(* arc_top_panel: the centre (x_c, y_c) for the radius R, then the arc. *)
ArcOfRadius(x, y, w, body_h, f, R, segments) ==
    ArcAbout(x, w, y + body_h, x + RDiv(w, 2), y + body_h - (R - f), R, segments)

(* arc_top_panel's R = (f**2 + (c/2)**2) / (2 f), as (4 f^2 + c^2) / (8 f). *)
ArcRadius_ChordNotHalved(c, f) == RDiv(f * f + c * c, 2 * f)

ArcRadius(c, f) == RDiv(4 * f * f + c * c, 8 * f)

(* The points arc_top_panel hands to polygon_wire, for arc_height # 0. *)
ArcTopPoints(x, y, w, h, arc_height, segments) ==
    <<Pt(x, y), Pt(x + w, y), Pt(x + w, y + (h - arc_height))>>
        \o ArcOfRadius(x, y, w, h - arc_height, arc_height,
                       ArcRadius(w, arc_height), segments)
        \o <<Pt(x, y + (h - arc_height)), Pt(x, y)>>

---------------------------------------------------------------------------
(* Parameters *)

(* DEFAULT_PARAMS, in millimetres. *)
DEFAULT_PARAMS ==
    [rail_length |-> 500, rail_width_rear |-> 40, rail_width_front |-> 25,
     rail_taper_start |-> 300, axle_from_front |-> 40, axle_diameter |-> 6,
     box_inner_length |-> 260, box_inner_width_rear |-> 150,
     box_inner_width_front |-> 70, box_inner_depth |-> 70,
     spreader_length |-> 120, spreader_height |-> 30,
     leg_height |-> 70, leg_width |-> 25,
     block_length |-> 80, block_width |-> 25,
     wheel_diameter |-> 120, wheel_hole_diameter |-> 6,
     wood_thick_struct |-> 15, wood_thick_panels |-> 10]

(* A literal number of millimetres of the source, in model units. *)
Mm(v) == v * Unit

(* value * scale, for a value in millimetres and a scale in tenths. *)
Scaled(v, scale) == RDiv(v * Unit * scale, 10)

(* scaled_params *)
scaled_params(scale) ==
    [key \in DOMAIN DEFAULT_PARAMS |-> Scaled(DEFAULT_PARAMS[key], scale)]

---------------------------------------------------------------------------
(* Annotations *)

(* add_linear_dimension: a Draft dimension from p1 to p2, labelled at dim_pos. *)
add_linear_dimension(p1, p2, dim_pos) ==
    [kind |-> "dim", Label |-> "", pts |-> <<p1, p2, dim_pos>>,
     center |-> Pt(0, 0), radius |-> 0]

(* add_diameter_dimension *)
add_diameter_dimension_FromCentre(center, radius, dim_pos) ==
    add_linear_dimension(center, Pt(center[1] + radius, center[2]), dim_pos)

add_diameter_dimension(center, radius, dim_pos) ==
    add_linear_dimension(Pt(center[1] - radius, center[2]),
                         Pt(center[1] + radius, center[2]), dim_pos)

(* add_text: a Draft text; the model keeps the label the content starts with. *)
add_text(text, pos) ==
    [kind |-> "text", Label |-> text, pts |-> <<pos>>,
     center |-> Pt(0, 0), radius |-> 0]

(* annotate: the dimensions, then the texts. *)
annotate(dims, texts) ==
    [i \in 1..Len(dims) |-> add_linear_dimension(dims[i][1], dims[i][2], dims[i][3])]
        \o [i \in 1..Len(texts) |-> add_text(texts[i][1], texts[i][2])]

(* What a builder did: the objects it added to the document, in order, the *)
(* shapes it returned, and the exception that ended it ("none": it returned). *)
Built(made, ret) == [made |-> made, ret |-> ret, err |-> "none"]

Raised(made, err) == [made |-> made, ret |-> <<>>, err |-> err]

(* A builder that adds only the shapes it returns. *)
BuiltAll(made) == Built(made, made)

Labelled(obj, label) == [obj EXCEPT !.Label = label]

---------------------------------------------------------------------------
(* Rails *)

(* The number of intervals of the rail's sampled bottom edge (N). *)
RailN == 60

(* width_at with the taper's slope taken over the whole length L. *)
width_at_SlopeOverLength(params, x) ==
    IF x <= params.rail_taper_start THEN params.rail_width_rear
    ELSE params.rail_width_rear
             + RDiv((params.rail_width_front - params.rail_width_rear)
                        * (x - params.rail_taper_start),
                    params.rail_length)

(* make_rails.width_at, where its division is defined. *)
width_at(params, x) ==
    LET L == params.rail_length
        w0 == params.rail_width_rear
        w1 == params.rail_width_front
        x_taper == params.rail_taper_start
    IN  IF x <= x_taper THEN w0
        ELSE w0 + RDiv((w1 - w0) * (x - x_taper), L - x_taper)

(* width_at(x) divides by zero: x is past the taper start and L = x_taper. *)
WidthDivZero(params, x) ==
    x > params.rail_taper_start /\ params.rail_length = params.rail_taper_start

(* The x of bottom sample i (0 .. N), from x = L down to x = 0. *)
RailSampleX(params, i) ==
    params.rail_length - RDiv(params.rail_length * i, RailN)

(* xform with the mirror flag ignored. *)
xform_NoMirror(origin, mirror_x, pt) == Pt(origin[1] + pt[1], origin[2] + pt[2])

(* make_rails.xform *)
xform(origin, mirror_x, pt) ==
    LET x == IF mirror_x THEN 0 - pt[1] ELSE pt[1]
    IN  Pt(origin[1] + x, origin[2] + pt[2])

(* The local outline of make_rails: top edge, sampled bottom edge, start. *)
RailOutline_NoClosingPoint(params) ==
    LET L == params.rail_length
    IN  <<Pt(0, 0), Pt(L, 0)>>
            \o [k \in 1..(RailN + 1) |->
                   LET x == RailSampleX(params, k - 1)
                   IN  Pt(x, 0 - width_at(params, x))]

RailOutline(params) ==
    LET L == params.rail_length
        top_pts == <<Pt(0, 0), Pt(L, 0)>>
        bottom_pts == [k \in 1..(RailN + 1) |->
                          LET x == RailSampleX(params, k - 1)
                          IN  Pt(x, 0 - width_at(params, x))]
    IN  top_pts \o bottom_pts \o <<Pt(0, 0)>>

(* The axle hole on the rail's bottom edge instead of its centre line. *)
RailAxleLocal_OnEdge(params) ==
    Pt(params.rail_length - params.axle_from_front,
       0 - width_at(params, params.rail_length - params.axle_from_front))

(* The local centre of the axle hole. *)
RailAxleLocal(params) ==
    LET x_axle_local == params.rail_length - params.axle_from_front
        w_axle == width_at(params, x_axle_local)
    IN  Pt(x_axle_local, 0 - RDiv(w_axle, 2))

(* make_rails *)
make_rails(params, origin, mirror_x, label) ==
    LET L == params.rail_length
        w0 == params.rail_width_rear
        w1 == params.rail_width_front
        axle_d == params.axle_diameter
        X(x, y) == xform(origin, mirror_x, Pt(x, y))
        outline == RailOutline(params)
        outline2 == [k \in 1..Len(outline) |-> xform(origin, mirror_x, outline[k])]
        wire == Labelled(polygon_wire(outline2), label \o "_PROFILE")
        x_axle_local == L - params.axle_from_front
        c == xform(origin, mirror_x, RailAxleLocal(params))
        circ == Labelled(circle(c, RDiv(axle_d, 2)), label \o "_AXLE_HOLE")
        notes == annotate(
            <<<<X(0, 0 - w0 - Mm(6)), X(L, 0 - w1 - Mm(6)),
                X(RDiv(L, 2), 0 - w0 - Mm(14))>>,
              <<X(0, 0), X(0, 0 - w0), X(0 - Mm(15), 0 - RDiv(w0, 2))>>,
              <<X(L, 0), X(L, 0 - w1), X(L + Mm(15), 0 - RDiv(w1, 2))>>,
              <<X(L, 0 - w1 - Mm(20)), X(x_axle_local, 0 - w1 - Mm(20)),
                X(RDiv(L + x_axle_local, 2), 0 - w1 - Mm(28))>> >>,
            <<<<label, Pt(origin[1] + RDiv(L, 2), origin[2] + Mm(8))>> >>)
        diam == add_diameter_dimension(c, RDiv(axle_d, 2), Pt(c[1], c[2] + Mm(12)))
    IN  IF \E i \in 0..RailN : WidthDivZero(params, RailSampleX(params, i))
        THEN Raised(<<>>, "ZeroDivisionError")
        ELSE IF WidthDivZero(params, x_axle_local)
        THEN Raised(<<wire>>, "ZeroDivisionError")
        ELSE Built(<<wire, circ>> \o notes \o <<diam>>, <<wire, circ>>)

---------------------------------------------------------------------------
(* Box panels *)

(* make_trapezoid_bottom *)
make_trapezoid_bottom(params, origin, label) ==
    LET L == params.box_inner_length
        wr == params.box_inner_width_rear
        wf == params.box_inner_width_front
        ox == origin[1]
        oy == origin[2]
        wire == Labelled(
            polygon_wire(<<Pt(ox, oy + RDiv(wr, 2)), Pt(ox + L, oy + RDiv(wf, 2)),
                           Pt(ox + L, oy - RDiv(wf, 2)), Pt(ox, oy - RDiv(wr, 2))>>),
            label \o "_TRAPEZOID")
        notes == annotate(
            <<<<Pt(ox, oy - RDiv(wr, 2) - Mm(10)), Pt(ox + L, oy - RDiv(wr, 2) - Mm(10)),
                Pt(ox + RDiv(L, 2), oy - RDiv(wr, 2) - Mm(18))>>,
              <<Pt(ox, oy + RDiv(wr, 2)), Pt(ox, oy - RDiv(wr, 2)), Pt(ox - Mm(12), oy)>>,
              <<Pt(ox + L, oy + RDiv(wf, 2)), Pt(ox + L, oy - RDiv(wf, 2)),
                Pt(ox + L + Mm(12), oy)>> >>,
            <<<<label, Pt(ox + RDiv(L, 2), oy + RDiv(wr, 2) + Mm(8))>> >>)
    IN  Built(<<wire>> \o notes, <<wire>>)

(* The two dimensions and the text every plain rectangle-like panel gets. *)
PanelNotes(ox, oy, w, h, label) ==
    annotate(
        <<<<Pt(ox, oy - Mm(8)), Pt(ox + w, oy - Mm(8)), Pt(ox + RDiv(w, 2), oy - Mm(15))>>,
          <<Pt(ox + w + Mm(8), oy), Pt(ox + w + Mm(8), oy + h),
            Pt(ox + w + Mm(16), oy + RDiv(h, 2))>> >>,
        <<<<label, Pt(ox + RDiv(w, 2), oy + h + Mm(6))>> >>)

(* make_side_panel *)
make_side_panel(params, origin, label) ==
    LET L == params.box_inner_length
        H == params.box_inner_depth
        rect == Labelled(rectangle_xywh(origin[1], origin[2], L, H), label \o "_RECT")
    IN  Built(<<rect>> \o PanelNotes(origin[1], origin[2], L, H, label), <<rect>>)

(* arc_top_panel: 2.0 * f = 0 raises before any object is created. *)
arc_top_panel(x, y, w, h, arc_height, segments) ==
    IF arc_height = 0 THEN Raised(<<>>, "ZeroDivisionError")
    ELSE BuiltAll(<<polygon_wire(ArcTopPoints(x, y, w, h, arc_height, segments))>>)

(* The segment count make_front_panel passes to arc_top_panel. *)
FrontSegments == 36

(* The default arc_height of make_front_panel, in millimetres. *)
FrontArcHeight == 10

(* make_front_panel, after arc_top_panel has returned or raised. *)
FrontPanelOf(arc, origin, W, H, label) ==
    IF arc.err # "none" THEN arc
    ELSE Built(<<Labelled(arc.ret[1], label \o "_CURVED_TOP")>>
                   \o PanelNotes(origin[1], origin[2], W, H, label),
               <<Labelled(arc.ret[1], label \o "_CURVED_TOP")>>)

(* make_front_panel *)
make_front_panel(params, origin, label, arc_height) ==
    FrontPanelOf(arc_top_panel(origin[1], origin[2], params.box_inner_width_front,
                               params.box_inner_depth, arc_height, FrontSegments),
                 origin, params.box_inner_width_front, params.box_inner_depth, label)

---------------------------------------------------------------------------
(* Spreaders, legs, axle block, wheel *)

(* make_spreaders: the objects of loop pass i (0 or 1), then its dimensions. *)
SpreaderRect(params, origin, label, gap, i) ==
    LET L == params.spreader_length
        H == params.spreader_height
    IN  Labelled(rectangle_xywh(origin[1], origin[2] + i * (H + gap), L, H),
                 label \o (IF i = 0 THEN "_1" ELSE "_2"))

SpreaderDims(params, origin, gap, i) ==
    LET L == params.spreader_length
        H == params.spreader_height
        ox == origin[1]
        oy == origin[2]
        d == i * (H + gap)
    IN  <<<<Pt(ox, oy - gap + d), Pt(ox + L, oy - gap + d),
            Pt(ox + RDiv(L, 2), oy - gap - Mm(7) + d)>>,
          <<Pt(ox + L + gap, oy + d), Pt(ox + L + gap, oy + H + d),
            Pt(ox + L + gap * 2, oy + RDiv(H, 2) + d)>> >>

(* make_spreaders *)
make_spreaders(params, origin, label, gap) ==
    LET L == params.spreader_length
        H == params.spreader_height
        objs == <<SpreaderRect(params, origin, label, gap, 0),
                  SpreaderRect(params, origin, label, gap, 1)>>
        notes == annotate(
            SpreaderDims(params, origin, gap, 0) \o SpreaderDims(params, origin, gap, 1),
            <<<<label, Pt(origin[1] + RDiv(L, 2), origin[2] + 2 * (H + gap) + Mm(4))>> >>)
    IN  Built(objs \o notes, objs)

(* make_legs: the objects of loop pass i (0 or 1), then its dimensions. *)
LegRect(params, origin, label, gap, i) ==
    LET H == params.leg_height
        W == params.leg_width
    IN  Labelled(rectangle_xywh(origin[1] + i * (W + gap), origin[2], W, H),
                 label \o (IF i = 0 THEN "_1" ELSE "_2"))

LegDims(params, origin, gap, i) ==
    LET H == params.leg_height
        W == params.leg_width
        ox == origin[1]
        oy == origin[2]
        d == i * (W + gap)
    IN  <<<<Pt(ox + d, oy - gap), Pt(ox + W + d, oy - gap),
            Pt(ox + RDiv(W, 2) + d, oy - gap - Mm(7))>>,
          <<Pt(ox + W + gap + d, oy), Pt(ox + W + gap + d, oy + H),
            Pt(ox + W + gap * 2 + d, oy + RDiv(H, 2))>> >>

(* make_legs *)
make_legs(params, origin, label, gap) ==
    LET H == params.leg_height
        W == params.leg_width
        objs == <<LegRect(params, origin, label, gap, 0),
                  LegRect(params, origin, label, gap, 1)>>
        notes == annotate(
            LegDims(params, origin, gap, 0) \o LegDims(params, origin, gap, 1),
            <<<<label, Pt(origin[1] + (W + gap), origin[2] + H + Mm(6))>> >>)
    IN  Built(objs \o notes, objs)

(* make_block *)
make_block(params, origin, label) ==
    LET L == params.block_length
        W == params.block_width
        rect == Labelled(rectangle_xywh(origin[1], origin[2], L, W), label \o "_RECT")
        c == Pt(origin[1] + RDiv(L, 2), origin[2] + RDiv(W, 2))
        r == RDiv(params.axle_diameter, 2)
        circ == Labelled(circle(c, r), label \o "_HOLE")
        diam == add_diameter_dimension(c, r, Pt(c[1], c[2] + Mm(10)))
    IN  Built(<<rect, circ>> \o PanelNotes(origin[1], origin[2], L, W, label) \o <<diam>>,
              <<rect, circ>>)

(* make_wheel *)
make_wheel_HubFromOwnDiameter(params, origin, label) ==
    LET D == params.wheel_diameter
        dH == params.wheel_hole_diameter
        c == Pt(origin[1] + RDiv(D, 2), origin[2] + RDiv(D, 2))
        outer == Labelled(circle(c, RDiv(D, 2)), label \o "_OUTER")
        inner == Labelled(circle(Pt(origin[1] + RDiv(dH, 2), origin[2] + RDiv(dH, 2)),
                                 RDiv(dH, 2)), label \o "_HUB")
    IN  Built(<<outer, inner>>, <<outer, inner>>)

make_wheel(params, origin, label) ==
    LET D == params.wheel_diameter
        dH == params.wheel_hole_diameter
        c == Pt(origin[1] + RDiv(D, 2), origin[2] + RDiv(D, 2))
        outer == Labelled(circle(c, RDiv(D, 2)), label \o "_OUTER")
        inner == Labelled(circle(c, RDiv(dH, 2)), label \o "_HUB")
    IN  Built(<<outer, inner,
                add_diameter_dimension(c, RDiv(D, 2), Pt(c[1], c[2] + RDiv(D, 2) + Mm(10))),
                add_diameter_dimension(c, RDiv(dH, 2), Pt(c[1], c[2] - RDiv(D, 2) - Mm(10))),
                add_text(label, Pt(c[1], c[2] + RDiv(D, 2) + Mm(18)))>>,
              <<outer, inner>>)

---------------------------------------------------------------------------
(* Placement (layout) *)

(* layout_parts.offset: value (millimetres) * scale (tenths). *)
offset_Unscaled(value, scale) == Mm(value)

offset(value, scale) == Scaled(value, scale)

(* The keys of the mapping layout_parts builds, in the order it builds them. *)
PartKeys ==
    <<"rail_left", "rail_right", "bottom", "side_left", "side_right", "front",
      "spreaders", "legs", "axle_block", "wheel">>

(* The builder calls of layout_parts, one per key. *)
RailLeftCall(params, scale) ==
    make_rails(params, Pt(0, offset(350, scale)), FALSE, "RAIL_LEFT")

RailRightCall(params, scale) ==
    make_rails(params, Pt(0, offset(200, scale)), TRUE, "RAIL_RIGHT")

BottomCall(params, scale) ==
    make_trapezoid_bottom(params, Pt(0, 0), "BOTTOM")

SideLeftCall(params, scale) ==
    make_side_panel(params, Pt(params.box_inner_length + offset(20, scale), 0),
                    "SIDE_LEFT")

SideRightCall(params, scale) ==
    make_side_panel(params,
                    Pt(params.box_inner_length + offset(20, scale),
                       params.box_inner_depth + offset(20, scale)),
                    "SIDE_RIGHT")

FrontCall(params, scale) ==
    make_front_panel(params, Pt(params.box_inner_length * 2 + offset(50, scale), 0),
                     "FRONT_PANEL", Mm(FrontArcHeight))

SpreadersCall(params, scale) ==
    make_spreaders(params, Pt(0, offset(520, scale)), "SPREADER", offset(8, scale))

LegsCall(params, scale) ==
    make_legs(params, Pt(params.spreader_length + offset(30, scale), offset(520, scale)),
              "LEG", offset(12, scale))

AxleBlockCall(params, scale) ==
    make_block(params, Pt(params.spreader_length + offset(140, scale), offset(520, scale)),
               "AXLE_BLOCK")

WheelCall(params, scale) ==
    make_wheel(params, Pt(params.rail_length + offset(40, scale), offset(220, scale)),
               "WHEEL")

(* layout_parts: the shapes of every key, for parameters no builder rejects. *)
layout_parts(params, scale) ==
    [k \in {PartKeys[n] : n \in 1..Len(PartKeys)} |->
        CASE k = "rail_left" -> RailLeftCall(params, scale).ret
          [] k = "rail_right" -> RailRightCall(params, scale).ret
          [] k = "bottom" -> BottomCall(params, scale).ret
          [] k = "side_left" -> SideLeftCall(params, scale).ret
          [] k = "side_right" -> SideRightCall(params, scale).ret
          [] k = "front" -> FrontCall(params, scale).ret
          [] k = "spreaders" -> SpreadersCall(params, scale).ret
          [] k = "legs" -> LegsCall(params, scale).ret
          [] k = "axle_block" -> AxleBlockCall(params, scale).ret
          [] k = "wheel" -> WheelCall(params, scale).ret]

---------------------------------------------------------------------------
(* Validation (wheelbarrow/geometry_validation.py) *)

(* The indices of the document's objects whose Label is one of labels. *)
Labelled_in(objects, labels) ==
    {i \in 1..Len(objects) : objects[i].Label \in labels}

(* The first index of a non-empty set of indices. *)
First(idx) == CHOOSE i \in idx : \A j \in idx : i <= j

(* The set of x (d = 1) or y (d = 2) coordinates an object's shape spans. *)
Coords(obj, d) ==
    IF obj.kind = "circle"
    THEN {obj.center[d] - Abs(obj.radius), obj.center[d] + Abs(obj.radius)}
    ELSE {obj.pts[i][d] : i \in 1..Len(obj.pts)}

SetMin(S) == CHOOSE a \in S : \A b \in S : a <= b

SetMax(S) == CHOOSE a \in S : \A b \in S : a >= b

(* Shape.BoundBox.XLength (d = 1) and YLength (d = 2). *)
BoundLength(obj, d) == SetMax(Coords(obj, d)) - SetMin(Coords(obj, d))

(* _assert_close raises: abs(got - want) > tol, tol in tenths of a millimetre. *)
NotClose(got, want, tol10) == 10 * Abs(got - want) > tol10 * Unit

(* validate: TRUE when it returns, FALSE when it raises AssertionError. *)
validate(objects, params) ==
    LET outer == Labelled_in(objects, {"WHEEL_OUTER"})
        rails == Labelled_in(objects, {"RAIL_LEFT_PROFILE", "RAIL_RIGHT_PROFILE"})
        wheel_ok ==
            outer = {} \/ ~NotClose(2 * objects[First(outer)].radius,
                                    params.wheel_diameter, 5)
        rail == objects[First(rails)]
        rail_ok ==
            rails = {} \/
              /\ ~NotClose(BoundLength(rail, 1), params.rail_length, 8)
              /\ params.rail_width_front <= BoundLength(rail, 2)
              /\ BoundLength(rail, 2) <= params.rail_width_rear + Mm(1)
    IN  wheel_ok /\ rail_ok

---------------------------------------------------------------------------
(* Export helpers (export_group) *)

(* What one exporter does when it is called: "ok" writes the file and      *)
(* returns, "silent" returns without writing, "raise" raises without       *)
(* writing, "partial" writes a file and then raises, "missing" is a module *)
(* that cannot be imported.                                                *)
ExportOutcomes == {"ok", "silent", "raise", "partial"}

ImporterOutcomes == ExportOutcomes \cup {"missing"}

(* A file on disk: its base name, its extension and the run that wrote it. *)
File(base, ext, run) == [base |-> base, ext |-> ext, run |-> run]

(* The files at one path, whichever run wrote them. *)
AtPath(files, base, ext) == {f \in files : f.base = base /\ f.ext = ext}

(* _remove_existing: the file at the path, if any, is removed. *)
_remove_existing(files, base, ext) == files \ AtPath(files, base, ext)

(* One attempt, given whether the target exists before it: the pair the    *)
(* _attempt_ functions return, and whether the target exists afterwards.   *)
AttemptResult_TrustsReturn(name, outcome, had) ==
    [success |-> outcome \in {"ok", "silent"},
     raised |-> outcome \in {"raise", "partial", "missing"},
     exists |-> had \/ outcome \in {"ok", "partial"},
     warn_msg |-> [fn |-> name, why |-> "export failed"]]

AttemptResult(name, outcome, had) ==
    [success |-> outcome \in {"ok", "silent"} /\ (had \/ outcome = "ok"),
     raised |-> outcome \in {"raise", "partial", "missing"},
     exists |-> had \/ outcome \in {"ok", "partial"},
     warn_msg |-> [fn |-> name,
                   why |-> CASE outcome = "missing" -> "unavailable"
                             [] outcome \in {"raise", "partial"} -> "export failed"
                             [] OTHER -> "reported success but file missing"]]

(* _attempt_named_export: import the module, call its export, look for the file. *)
_attempt_named_export(module_name, outcome, had) ==
    AttemptResult(module_name, outcome, had)

(* _attempt_draft_export: Draft.export, then look for the file. *)
_attempt_draft_export(outcome, had) == AttemptResult("Draft", outcome, had)

(* _attempt_import_export: Import.export, then look for the file. *)
_attempt_import_export(outcome, had) == AttemptResult("Import", outcome, had)

(* The result of the idx-th runner of a chain. *)
RunAttempt(attempts, idx, had) ==
    CASE idx = 1 -> _attempt_named_export(attempts[1].name, attempts[1].outcome, had)
      [] idx = 2 -> _attempt_draft_export(attempts[2].outcome, had)
      [] OTHER -> _attempt_import_export(attempts[idx].outcome, had)

(* What the trace of a chain keeps of one runner call: the exporter, and   *)
(* what it did (it raised; the target exists after it).                    *)
Called(name, r) == [fn |-> name, raised |-> r.raised, exists |-> r.exists]

(* _run_export_chain from its idx-th attempt on: the runners it has called *)
(* (calls), whether the target exists at the end, and the messages it adds *)
(* to errors.                                                              *)
RECURSIVE _run_export_chain(_, _, _, _)
ChainStep(attempts, idx, calls, r) ==
    IF r.success
    THEN [calls |-> calls, exists |-> r.exists, messages |-> <<>>]
    ELSE IF idx < Len(attempts)
         THEN _run_export_chain(attempts, idx + 1, r.exists, calls)
         ELSE [calls |-> calls, exists |-> r.exists, messages |-> <<r.warn_msg>>]

ChainCall(attempts, idx, calls, r) ==
    ChainStep(attempts, idx, Append(calls, Called(attempts[idx].name, r)), r)

_run_export_chain(attempts, idx, had, calls) ==
    ChainCall(attempts, idx, calls, RunAttempt(attempts, idx, had))

(* The three attempts export_group passes for one format, with what each  *)
(* exporter does in this environment.                                      *)
ChainAttempts(importer, outcomes) ==
    <<[name |-> importer, outcome |-> outcomes[1]],
      [name |-> "Draft", outcome |-> outcomes[2]],
      [name |-> "Import", outcome |-> outcomes[3]]>>

(* export_group after both chains have run. *)
ExportResult(files, base, run, dxf, svg) ==
    [files |-> files
                \cup (IF dxf.exists THEN {File(base, "dxf", run)} ELSE {})
                \cup (IF svg.exists THEN {File(base, "svg", run)} ELSE {}),
     dxf_calls |-> dxf.calls,
     svg_calls |-> svg.calls,
     errors |-> dxf.messages \o svg.messages,
     err |-> IF dxf.messages \o svg.messages = <<>> THEN "none" ELSE "RuntimeError"]

(* export_group(objects, out_path_base) in an environment whose exporters  *)
(* behave as env.dxf and env.svg say; run tags the files it writes.       *)
export_group(objs, base, env, files, run) ==
    IF objs = <<>>
    THEN [files |-> files, dxf_calls |-> <<>>, svg_calls |-> <<>>, errors |-> <<>>,
          err |-> "ValueError"]
    ELSE ExportResult(_remove_existing(_remove_existing(files, base, "dxf"), base, "svg"),
                      base, run,
                      _run_export_chain(ChainAttempts("importDXF", env.dxf), 1, FALSE, <<>>),
                      _run_export_chain(ChainAttempts("importSVG", env.svg), 1, FALSE, <<>>))

---------------------------------------------------------------------------
(* PDF page (make_pdf_page_from_objects) *)

PDF_BACKENDS == {"techdraw", "qt", "auto"}

(* str.lower on the backend names a caller may pass. *)
lower(s) ==
    CASE s \in {"techdraw", "TechDraw", "TECHDRAW"} -> "techdraw"
      [] s \in {"qt", "Qt", "QT"} -> "qt"
      [] s \in {"auto", "Auto", "AUTO"} -> "auto"
      [] OTHER -> s

(* What the TechDraw routine does in an environment: "ok" leaves the PDF   *)
(* and returns, "fail" raises before it touches the output path, "lost"    *)
(* raises after it removed the PDF that was at the output path.            *)
TechDrawOutcomes == {"ok", "fail", "lost"}

(* What the Qt renderer does: "ok" writes the PDF, "raise" has no Qt       *)
(* bindings or no active painter.                                          *)
QtOutcomes == {"ok", "raise"}

(* What a renderer did: it raised or not, and the files it left. *)
Rendered(raised, files) == [raised |-> raised, files |-> files]

(* _techdraw_pdf: no view is created for an empty object list, and without *)
(* an output path nothing is exported.                                     *)
_techdraw_pdf(objects, out, files, run, outcome) ==
    IF objects = <<>> THEN Rendered(TRUE, files)
    ELSE IF out = "none" THEN Rendered(FALSE, files)
    ELSE CASE outcome = "ok" ->
                Rendered(FALSE, _remove_existing(files, out, "pdf")
                                  \cup {File(out, "pdf", run)})
           [] outcome = "lost" -> Rendered(TRUE, _remove_existing(files, out, "pdf"))
           [] OTHER -> Rendered(TRUE, files)

(* _qt_pdf_fallback: returns at once without an output path, raises        *)
(* without Qt or without shapes, else prints the outlines to the PDF.      *)
_qt_pdf_fallback(objects, out, files, run, outcome) ==
    IF out = "none" THEN Rendered(FALSE, files)
    ELSE IF outcome = "raise" \/ objects = <<>> THEN Rendered(TRUE, files)
    ELSE Rendered(FALSE, _remove_existing(files, out, "pdf") \cup {File(out, "pdf", run)})

(* What make_pdf_page_from_objects did: the renderers it called in order,  *)
(* the files it left and the exception it raised.                          *)
PdfResult(renderers, files, err) ==
    [renderers |-> renderers, files |-> files, err |-> err]

(* What the trace keeps of one renderer call: the renderer, and whether it *)
(* raised.                                                                 *)
Ran(name, r) == [fn |-> name, raised |-> r.raised]

(* backend "auto" after the TechDraw attempt, if any: the Qt renderer, its *)
(* exception printed and swallowed.                                        *)
AutoFallback(renderers, qt) ==
    PdfResult(Append(renderers, Ran("qt", qt)), qt.files, "none")

(* backend "auto" with TechDraw available. *)
AutoTechDraw_NoReturn(objects, out, run, env, td) ==
    AutoFallback(<<Ran("techdraw", td)>>,
                 _qt_pdf_fallback(objects, out, td.files, run, env.qt))

AutoTechDraw(objects, out, run, env, td) ==
    IF ~td.raised THEN PdfResult(<<Ran("techdraw", td)>>, td.files, "none")
    ELSE AutoFallback(<<Ran("techdraw", td)>>,
                      _qt_pdf_fallback(objects, out, td.files, run, env.qt))

(* One renderer, its exception passed on: backends "techdraw" and "qt". *)
OnlyRenderer(name, r) ==
    PdfResult(<<Ran(name, r)>>, r.files, IF r.raised THEN "RuntimeError" ELSE "none")

(* make_pdf_page_from_objects once backend = pdf_backend.lower() is known. *)
PdfWithBackend(objects, out, backend, env, files, run) ==
    IF backend \notin PDF_BACKENDS THEN PdfResult(<<>>, files, "ValueError")
    ELSE IF backend = "techdraw"
    THEN (IF ~env.techdraw_available THEN PdfResult(<<>>, files, "RuntimeError")
          ELSE OnlyRenderer("techdraw",
                            _techdraw_pdf(objects, out, files, run, env.techdraw)))
    ELSE IF backend = "qt"
    THEN OnlyRenderer("qt", _qt_pdf_fallback(objects, out, files, run, env.qt))
    ELSE IF env.techdraw_available
    THEN AutoTechDraw(objects, out, run, env,
                      _techdraw_pdf(objects, out, files, run, env.techdraw))
    ELSE AutoFallback(<<>>, _qt_pdf_fallback(objects, out, files, run, env.qt))

make_pdf_page_from_objects(objects, out, pdf_backend, env, files, run) ==
    PdfWithBackend(objects, out, lower(pdf_backend), env, files, run)

---------------------------------------------------------------------------
(* State *)

VARIABLES
    pc,       \* where the program is: "idle" between calls, else the next step
    runs,     \* how many calls of main have started in this process
    args,     \* the parsed arguments of the current call of main
    params,   \* the parameter table the builders read
    doc,      \* the objects of the document, in creation order
    groups,   \* the mapping from part key to the shapes its builder returned
    err,      \* the exception that ended the last call ("none": it returned)
    prefs,    \* export_prefs.configure has run
    outdir,   \* the output directory exists
    docOpen,  \* the document WheelbarrowDrawings exists
    call,     \* the arguments of a direct call (none inside main)
    files,    \* the files in the output directory
    env,      \* what the exporters and renderers of this installation do
    calls,    \* the exporters and renderers the last export step called
    validated \* "[OK] Validation passed." was printed in this run

vars ==
    <<pc, runs, args, params, doc, groups, err, prefs, outdir, docOpen, call,
      files, env, calls, validated>>

NoArgs == [scale |-> 0, validate |-> FALSE, pdf_backend |-> "techdraw"]

NoCalls == [dxf |-> <<>>, svg |-> <<>>, pdf |-> <<>>, errors |-> <<>>]

(* An installation in which every exporter and renderer works. *)
AllWork ==
    [dxf |-> <<"ok", "ok", "ok">>, svg |-> <<"ok", "ok", "ok">>,
     techdraw_available |-> TRUE, techdraw |-> "ok", qt |-> "ok"]

(* An installation without the importer modules and without TechDraw. *)
NoTechDraw ==
    [dxf |-> <<"missing", "ok", "ok">>, svg |-> <<"missing", "silent", "ok">>,
     techdraw_available |-> FALSE, techdraw |-> "fail", qt |-> "ok"]

(* An installation whose SVG exporters and PDF renderers are broken. *)
BrokenSvg ==
    [dxf |-> <<"ok", "ok", "ok">>, svg |-> <<"raise", "partial", "raise">>,
     techdraw_available |-> TRUE, techdraw |-> "lost", qt |-> "raise"]

(* The installations main runs in, each with the --pdf-backend it is given. *)
MainConfigs ==
    {[pdf_backend |-> "techdraw", env |-> AllWork],
     [pdf_backend |-> "auto", env |-> NoTechDraw],
     [pdf_backend |-> "techdraw", env |-> NoTechDraw],
     [pdf_backend |-> "qt", env |-> BrokenSvg]}

NoParams == [key \in DOMAIN DEFAULT_PARAMS |-> 0]

NoGroups == <<>>

NoCall == [builder |-> "none", origin |-> Pt(0, 0), arc_height |-> 0]

(* The scales main is called with, in tenths: 0.1, 1.0, 5.0, 20.0, and the *)
(* invalid 0 and -1.0.                                                     *)
ScaleArgs == {1, 10, 50, 200, 0, -10}

---------------------------------------------------------------------------
(* main *)

Init ==
    /\ pc = "idle"
    /\ runs = 0
    /\ args = NoArgs
    /\ params = NoParams
    /\ doc = <<>>
    /\ groups = NoGroups
    /\ err = "none"
    /\ prefs = FALSE
    /\ outdir = FALSE
    /\ docOpen = FALSE
    /\ call = NoCall
    /\ files = {}
    /\ env = AllWork
    /\ calls = NoCalls
    /\ validated = FALSE

(* main's test of the scale it parsed: "if args.scale <= 0". *)
ScaleRejected_OnlyNegative(scale) == scale < 0

ScaleRejected(scale) == scale <= 0

(* main, from parse_args to the document lookup. *)
MainStart ==
    /\ pc = "idle"
    /\ runs < MaxRuns
    /\ \E scale \in ScaleArgs, v \in BOOLEAN, c \in MainConfigs :
         /\ args' = [scale |-> scale, validate |-> v, pdf_backend |-> c.pdf_backend]
         /\ env' = c.env
         /\ runs' = runs + 1
         /\ groups' = NoGroups
         /\ validated' = FALSE
         /\ IF ScaleRejected(scale)
            THEN /\ err' = "ValueError"
                 /\ pc' = "idle"
                 /\ UNCHANGED <<params, prefs, outdir, docOpen>>
            ELSE /\ err' = "none"
                 /\ prefs' = TRUE
                 /\ outdir' = TRUE
                 /\ params' = scaled_params(scale)
                 /\ docOpen' = TRUE
                 /\ pc' = PartKeys[1]
    /\ UNCHANGED <<doc, call, files, calls>>

(* The step after the builder call for PartKeys[n]. *)
AfterPart_NeverValidates(n) ==
    IF n < Len(PartKeys) THEN PartKeys[n + 1] ELSE "export"

AfterPart(n) ==
    IF n < Len(PartKeys) THEN PartKeys[n + 1]
    ELSE IF args.validate THEN "validate" ELSE "export"

(* layout_parts: what the n-th builder call did reaches the document, the *)
(* mapping and the position of main.                                        *)
LayoutStep_DuplicateKey(n, res) ==
    /\ pc = PartKeys[n]
    /\ doc' = doc \o res.made
    /\ groups' = (PartKeys[IF n = 2 THEN 1 ELSE n] :> res.ret) @@ groups
    /\ pc' = AfterPart(n)
    /\ err' = err
    /\ UNCHANGED <<runs, args, params, prefs, outdir, docOpen, call,
                   files, env, calls, validated>>

LayoutStep(n, res) ==
    /\ pc = PartKeys[n]
    /\ doc' = doc \o res.made
    /\ IF res.err = "none"
       THEN /\ groups' = groups @@ (PartKeys[n] :> res.ret)
            /\ pc' = AfterPart(n)
            /\ err' = err
       ELSE /\ groups' = NoGroups
            /\ pc' = "idle"
            /\ err' = res.err
    /\ UNCHANGED <<runs, args, params, prefs, outdir, docOpen, call,
                   files, env, calls, validated>>

LayoutRailLeft == LayoutStep(1, RailLeftCall(params, args.scale))

LayoutRailRight == LayoutStep(2, RailRightCall(params, args.scale))

LayoutBottom == LayoutStep(3, BottomCall(params, args.scale))

LayoutSideLeft == LayoutStep(4, SideLeftCall(params, args.scale))

LayoutSideRight == LayoutStep(5, SideRightCall(params, args.scale))

LayoutFront == LayoutStep(6, FrontCall(params, args.scale))

LayoutSpreaders == LayoutStep(7, SpreadersCall(params, args.scale))

LayoutLegs == LayoutStep(8, LegsCall(params, args.scale))

LayoutAxleBlock == LayoutStep(9, AxleBlockCall(params, args.scale))

LayoutWheel == LayoutStep(10, WheelCall(params, args.scale))

(* main: validate_geometry(doc, params) when --validate is given. *)
Validate ==
    /\ pc = "validate"
    /\ IF validate(doc, params)
       THEN pc' = "export" /\ err' = err /\ validated' = TRUE
       ELSE pc' = "idle" /\ err' = "AssertionError" /\ validated' = FALSE
    /\ UNCHANGED <<runs, args, params, doc, groups, prefs, outdir, docOpen, call,
                   files, env, calls>>

(* main's loop "for key, objs in groups.items(): export_group(...)" from  *)
(* its k-th key on: the first call that raises ends it.                    *)
RECURSIVE ExportParts(_, _, _, _, _)
ExportPartsStep(k, grp, e, run, r) ==
    IF r.err # "none" \/ k = Len(PartKeys) THEN r
    ELSE ExportParts(k + 1, grp, e, r.files, run)

ExportParts(k, grp, e, fs, run) ==
    ExportPartsStep(k, grp, e, run, export_group(grp[PartKeys[k]], PartKeys[k], e, fs, run))

(* main's all_objs: the shapes of every key, in the mapping's order. *)
RECURSIVE AllObjs(_, _)
AllObjs(grp, k) ==
    IF k > Len(PartKeys) THEN <<>> ELSE grp[PartKeys[k]] \o AllObjs(grp, k + 1)

(* One export step of main: the files and the trace it leaves, and the     *)
(* exception, if any, that ends main.                                      *)
ExportStep(at, res, trace, after) ==
    /\ pc = at
    /\ files' = res.files
    /\ calls' = trace
    /\ IF res.err = "none"
       THEN pc' = after /\ err' = err
       ELSE pc' = "idle" /\ err' = res.err
    /\ UNCHANGED <<runs, args, params, doc, groups, prefs, outdir, docOpen, call,
                   env, validated>>

(* The trace of an export_group call, with the messages of its RuntimeError. *)
GroupTrace(res) ==
    [dxf |-> res.dxf_calls, svg |-> res.svg_calls, pdf |-> <<>>, errors |-> res.errors]

(* The trace of a make_pdf_page_from_objects call. *)
PdfTrace(res) == [dxf |-> <<>>, svg |-> <<>>, pdf |-> res.renderers, errors |-> <<>>]

(* main: the DXF and SVG files of every part group. *)
ExportGroups ==
    ExportStep("export", ExportParts(1, groups, env, files, runs),
               GroupTrace(ExportParts(1, groups, env, files, runs)), "export_all")

(* main: all_parts.dxf and all_parts.svg. *)
ExportAll ==
    ExportStep("export_all", export_group(AllObjs(groups, 1), "all_parts", env, files, runs),
               GroupTrace(export_group(AllObjs(groups, 1), "all_parts", env, files, runs)),
               "pdf")

(* main: all_parts.pdf (runs without --tile-a4 and --pdf-per-part). *)
MakePdf ==
    ExportStep("pdf",
               make_pdf_page_from_objects(AllObjs(groups, 1), "all_parts",
                                          args.pdf_backend, env, files, runs),
               PdfTrace(make_pdf_page_from_objects(AllObjs(groups, 1), "all_parts",
                                                   args.pdf_backend, env, files, runs)),
               "save")

(* main: doc.saveAs, the closing messages and "return 0". *)
SaveAndReturn ==
    /\ pc = "save"
    /\ files' = _remove_existing(files, "freecad_source", "FCStd")
                  \cup {File("freecad_source", "FCStd", runs)}
    /\ pc' = "idle"
    /\ UNCHANGED <<runs, args, params, doc, groups, err, prefs, outdir, docOpen, call,
                   env, calls, validated>>

Next ==
    \/ MainStart
    \/ LayoutRailLeft
    \/ LayoutRailRight
    \/ LayoutBottom
    \/ LayoutSideLeft
    \/ LayoutSideRight
    \/ LayoutFront
    \/ LayoutSpreaders
    \/ LayoutLegs
    \/ LayoutAxleBlock
    \/ LayoutWheel
    \/ Validate
    \/ ExportGroups
    \/ ExportAll
    \/ MakePdf
    \/ SaveAndReturn

Spec == Init /\ [][Next]_vars

---------------------------------------------------------------------------
(* Direct calls of the profile builders, with parameters of the caller's   *)
(* choice: one builder call on an empty document (for the rails, the same  *)
(* call once unmirrored and once mirrored).                                *)

(* The default table at scale 1 with the rail's parameters replaced. *)
RailParams(L, w0, w1, xt, axf, ad) ==
    [scaled_params(10) EXCEPT !.rail_length = Mm(L), !.rail_width_rear = Mm(w0),
                              !.rail_width_front = Mm(w1), !.rail_taper_start = Mm(xt),
                              !.axle_from_front = Mm(axf), !.axle_diameter = Mm(ad)]

(* Rail parameters in millimetres: tapers that start before, at and after  *)
(* the rail's end, widening and narrowing rails, and non-positive values.  *)
RailCases ==
    {RailParams(L, 40, w1, xt, axf, 6) :
        L \in {500, 60}, w1 \in {25, 40, 55}, xt \in {0, 300, 450, 500, 600},
        axf \in {40, 0}}
    \cup {RailParams(L, 40, 25, 300, 40, 6) : L \in {0, 0 - 500}}
    \cup {RailParams(500, w0, 25, 300, 40, 6) : w0 \in {0, 0 - 40}}
    \cup {RailParams(500, 40, w1, 300, 40, 6) : w1 \in {0, 0 - 25}}
    \cup {RailParams(500, 40, 25, 300, 40, ad) : ad \in {0, 0 - 6}}
    \cup {RailParams(0 - 500, 40, 25, 0 - 500, axf, 6) : axf \in {40, 0 - 600}}

(* The default table at scale 1 with the box front's width and depth replaced. *)
PanelParams(W, H) ==
    [scaled_params(10) EXCEPT !.box_inner_width_front = Mm(W),
                              !.box_inner_depth = Mm(H),
                              !.box_inner_length = Mm(W),
                              !.box_inner_width_rear = Mm(H)]

PanelCases ==
    {PanelParams(W, H) : W \in {70, 20, 7, 0, 0 - 70}, H \in {70, 30, 0, 0 - 70}}

(* Arc rises (millimetres) a front panel is called with. *)
ArcHeights == {10, 5, 35, 50, 0, 0 - 10}

(* The default table at scale 1 with the round parts' parameters replaced. *)
RoundParams(D, dH, L, W) ==
    [scaled_params(10) EXCEPT !.wheel_diameter = Mm(D), !.wheel_hole_diameter = Mm(dH),
                              !.axle_diameter = Mm(dH),
                              !.block_length = Mm(L), !.block_width = Mm(W),
                              !.spreader_length = Mm(L), !.spreader_height = Mm(W),
                              !.leg_height = Mm(L), !.leg_width = Mm(W)]

RoundCases ==
    {RoundParams(D, dH, L, W) :
        D \in {120, 12, 2400, 0, 0 - 120}, dH \in {6, 0 - 6}, L \in {80, 0 - 80},
        W \in {25, 0}}

(* Origins (millimetres) a builder is called with. *)
Origins == {Pt(0, 0), Pt(Mm(30), Mm(350))}

Call(b, o, f) == [builder |-> b, origin |-> o, arc_height |-> f]

InitCalls ==
    /\ pc = "call"
    /\ runs = 0
    /\ args = NoArgs
    /\ doc = <<>>
    /\ groups = NoGroups
    /\ err = "none"
    /\ prefs = FALSE
    /\ outdir = FALSE
    /\ docOpen = FALSE
    /\ files = {}
    /\ env = AllWork
    /\ calls = NoCalls
    /\ validated = FALSE
    /\ \/ /\ params \in RailCases
          /\ call \in {Call("rails", o, 0) : o \in Origins}
       \/ /\ params \in PanelCases
          /\ call \in {Call(b, o, Mm(f)) :
                         b \in {"front", "side", "bottom"}, o \in Origins, f \in ArcHeights}
       \/ /\ params \in RoundCases
          /\ call \in {Call(b, o, 0) :
                         b \in {"wheel", "block", "spreaders", "legs"}, o \in Origins}

(* A builder call: what it made reaches the document, what it returned or *)
(* raised reaches the caller.                                             *)
CallStep(b, res, after) ==
    /\ pc = "call"
    /\ call.builder = b
    /\ doc' = doc \o res.made
    /\ groups' = (b :> res.ret)
    /\ err' = res.err
    /\ pc' = IF res.err = "none" THEN after ELSE "done"
    /\ UNCHANGED <<runs, args, params, prefs, outdir, docOpen, call,
                   files, env, calls, validated>>

CallRails ==
    CallStep("rails", make_rails(params, call.origin, FALSE, "RAIL"), "mirror")

(* The same rail again, mirrored, from the same origin. *)
CallRailsMirrored ==
    /\ pc = "mirror"
    /\ doc' = doc \o make_rails(params, call.origin, TRUE, "RAIL_M").made
    /\ pc' = "done"
    /\ UNCHANGED <<runs, args, params, groups, err, prefs, outdir, docOpen, call,
                   files, env, calls, validated>>

CallTrapezoid ==
    CallStep("bottom", make_trapezoid_bottom(params, call.origin, "BOTTOM"), "done")

CallSidePanel ==
    CallStep("side", make_side_panel(params, call.origin, "SIDE"), "done")

CallFrontPanel ==
    CallStep("front", make_front_panel(params, call.origin, "FRONT", call.arc_height),
             "done")

CallSpreaders ==
    CallStep("spreaders", make_spreaders(params, call.origin, "SPREADER", Mm(8)), "done")

CallLegs ==
    CallStep("legs", make_legs(params, call.origin, "LEG", Mm(12)), "done")

CallBlock ==
    CallStep("block", make_block(params, call.origin, "AXLE_BLOCK"), "done")

CallWheel ==
    CallStep("wheel", make_wheel(params, call.origin, "WHEEL"), "done")

NextCalls ==
    \/ CallRails
    \/ CallRailsMirrored
    \/ CallTrapezoid
    \/ CallSidePanel
    \/ CallFrontPanel
    \/ CallSpreaders
    \/ CallLegs
    \/ CallBlock
    \/ CallWheel

SpecCalls == InitCalls /\ [][NextCalls]_vars

---------------------------------------------------------------------------
(* Direct calls of export_group and of make_pdf_page_from_objects, in any  *)
(* installation, on an output directory that may hold an older file.       *)

(* What the three exporters of one format may do. *)
ChainEnvs ==
    {<<a, b, c>> : a \in ImporterOutcomes, b \in ExportOutcomes, c \in ExportOutcomes}

(* The installations export_group is called in. *)
ExportEnvs == {[AllWork EXCEPT !.dxf = d, !.svg = v] : d \in ChainEnvs, v \in ChainEnvs}

(* The installations make_pdf_page_from_objects is called in. *)
PdfEnvs ==
    {[AllWork EXCEPT !.techdraw_available = a, !.techdraw = t, !.qt = q] :
        a \in BOOLEAN, t \in TechDrawOutcomes, q \in QtOutcomes}

(* The values of pdf_backend a caller passes. *)
BackendArgs == {"techdraw", "qt", "auto", "TechDraw", "QT", "Auto", "pdf", ""}

(* The object lists a caller passes: none, or one circle. *)
ObjectLists == {<<>>, <<Labelled(circle(Pt(0, 0), Mm(3)), "HOLE")>>}

InitExports ==
    /\ pc = "call"
    /\ runs = 1
    /\ params = NoParams
    /\ doc = <<>>
    /\ err = "none"
    /\ prefs = FALSE
    /\ outdir = TRUE
    /\ docOpen = TRUE
    /\ calls = NoCalls
    /\ validated = FALSE
    /\ groups \in {("objs" :> objs) : objs \in ObjectLists}
    /\ \/ /\ call = Call("export_group", Pt(0, 0), 0)
          /\ args = NoArgs
          /\ env \in ExportEnvs
          /\ files \in {{}, {File("part", "dxf", 0), File("part", "svg", 0)}}
       \/ /\ call = Call("make_pdf_page_from_objects", Pt(0, 0), 0)
          /\ args \in {[NoArgs EXCEPT !.pdf_backend = b] : b \in BackendArgs}
          /\ env \in PdfEnvs
          /\ files \in {{}, {File("part", "pdf", 0)}}

(* A direct call: the files and the trace it leaves, what it raised. *)
CallIO(name, res, trace) ==
    /\ pc = "call"
    /\ call.builder = name
    /\ files' = res.files
    /\ calls' = trace
    /\ err' = res.err
    /\ pc' = "done"
    /\ UNCHANGED <<runs, args, params, doc, groups, prefs, outdir, docOpen, call,
                   env, validated>>

CallExportGroup ==
    CallIO("export_group", export_group(groups["objs"], "part", env, files, runs),
           GroupTrace(export_group(groups["objs"], "part", env, files, runs)))

CallMakePdf ==
    CallIO("make_pdf_page_from_objects",
           make_pdf_page_from_objects(groups["objs"], "part", args.pdf_backend, env,
                                      files, runs),
           PdfTrace(make_pdf_page_from_objects(groups["objs"], "part", args.pdf_backend,
                                               env, files, runs)))

NextExports ==
    \/ CallExportGroup
    \/ CallMakePdf

SpecExports == InitExports /\ [][NextExports]_vars

---------------------------------------------------------------------------
(* The TechDraw routine step by step: calls of _techdraw_pdf, one after    *)
(* the other on one document (default title "Sheet"), in an installation   *)
(* whose TechDraw behaves as env says.                                     *)

(* What a PDF exporter does with a page: "ok" writes the PDF, "raise"      *)
(* raises, "silent" returns without leaving a non-empty PDF.               *)
PageExportOutcomes == {"ok", "raise", "silent"}

(* A TechDraw installation: the template file can be resolved; the index   *)
(* of the object whose view.Source assignment raises TypeError (0: none);  *)
(* TechDraw has exportPageAsPdf; what it and TechDrawGui.exportPageAsPdf   *)
(* do with a page of the document; what either does with a page that has   *)
(* been removed from the document (any of the three: the page object is    *)
(* a dangling reference).                                                  *)
TechDrawEnvs ==
    [template : BOOLEAN, attach : 0..2, has_export : BOOLEAN,
     export : PageExportOutcomes, gui : PageExportOutcomes,
     stale : PageExportOutcomes]

(* The objects a caller passes: none, one circle, a circle and a wire. *)
SheetObjects ==
    {<<>>,
     <<Labelled(circle(Pt(0, 0), Mm(3)), "HOLE")>>,
     <<Labelled(circle(Pt(0, 0), Mm(3)), "HOLE"),
       Labelled(rectangle_xywh(0, 0, Mm(80), Mm(25)), "RECT")>>}

(* The types of the temporary objects _techdraw_pdf adds. *)
TechDrawTypes ==
    {"TechDraw::DrawPage", "TechDraw::DrawSVGTemplate", "TechDraw::DrawViewPart"}

(* doc.addObject(type, name) for a TechDraw object. *)
TechDrawObject(type, name) ==
    [kind |-> type, Label |-> name, pts |-> <<>>, center |-> Pt(0, 0), radius |-> 0]

(* The names of the document's objects. *)
Names(objects) == {objects[i].Label : i \in 1..Len(objects)}

(* _make_doc_name: the prefix, or the first of prefix_1, prefix_2, ... that *)
(* no object of the document has.                                           *)
RECURSIVE FreeName(_, _, _)
FreeName(taken, base, index) ==
    IF (base \o "_" \o ToString(index)) \notin taken
    THEN base \o "_" \o ToString(index)
    ELSE FreeName(taken, base, index + 1)

_make_doc_name(objects, prefix) ==
    IF prefix \notin Names(objects) THEN prefix ELSE FreeName(Names(objects), prefix, 1)

(* doc.removeObject for every object with one of the names. *)
removeObject(objects, names) == SelectSeq(objects, LAMBDA o : o.Label \notin names)

(* The locals of a call of _techdraw_pdf. *)
TechDrawLocals(out, page, template) ==
    [builder |-> "_techdraw_pdf", out |-> out, page |-> page, template |-> template,
     index |-> 1, created_views |-> <<>>, pending |-> "none"]

(* The page, its template and its views are all in the document. *)
PageInDocument(objects, locals) ==
    ({locals.page, locals.template}
        \cup {locals.created_views[i] : i \in 1..Len(locals.created_views)})
      \subseteq Names(objects)

(* What the trace keeps of a step of the routine: an exporter call on the  *)
(* page (own: it wrote the PDF), os.remove of the output PDF (own: the PDF *)
(* was written by this call), the cleanup of the temporary objects; live:  *)
(* the page, its template and its views were in the document at that time. *)
Event(ev, fn, live, own) == [ev |-> ev, fn |-> fn, live |-> live, own |-> own]

(* The PDF the call number run writes at the output path. *)
OwnPdf(out, run) == File(out, "pdf", run)

(* "if os.path.exists(abs_pdf_path): os.remove(abs_pdf_path)" *)
RemovePdf(fs, out, run, live) ==
    [files |-> _remove_existing(fs, out, "pdf"),
     events |-> IF AtPath(fs, out, "pdf") = {} THEN <<>>
                ELSE <<Event("remove", "os.remove", live, OwnPdf(out, run) \in fs)>>]

(* One exporter call on the page. *)
PageExport(fn, outcome, fs, out, run, live) ==
    [files |-> IF outcome = "ok" THEN fs \cup {OwnPdf(out, run)} ELSE fs,
     events |-> <<Event("export", fn, live, outcome = "ok")>>,
     raised |-> outcome = "raise"]

(* "if last_exc is not None or not os.path.exists(abs_pdf_path)": the      *)
(* TechDrawGui exporter, then "if last_exc is not None: raise", then the   *)
(* wait for a non-empty PDF.                                               *)
GuiExport(first, gui, out, run, live) ==
    LET again == first.raised \/ AtPath(first.files, out, "pdf") = {}
        second == PageExport("TechDrawGui.exportPageAsPdf", gui, first.files, out, run, live)
        last == IF again THEN second ELSE first
    IN  [files |-> last.files,
         events |-> IF again THEN first.events \o second.events ELSE first.events,
         raised |-> last.raised \/ AtPath(last.files, out, "pdf") = {}]

(* The export block: TechDraw.exportPageAsPdf if the module has it, then   *)
(* the rest.                                                               *)
ExportPage(has_export, outcome, gui, fs, out, run, live) ==
    GuiExport(IF has_export
              THEN PageExport("TechDraw.exportPageAsPdf", outcome, fs, out, run, live)
              ELSE [files |-> fs, events |-> <<>>, raised |-> FALSE],
              gui, out, run, live)

InitTechDraw ==
    /\ pc = "idle"
    /\ runs = 0
    /\ args = NoArgs
    /\ params = NoParams
    /\ err = "none"
    /\ prefs = FALSE
    /\ outdir = TRUE
    /\ docOpen = TRUE
    /\ call = NoCall
    /\ calls = NoCalls
    /\ validated = FALSE
    /\ groups \in {("objs" :> objs) : objs \in SheetObjects}
    /\ doc = groups["objs"]
    /\ env \in TechDrawEnvs
    /\ files \in {{}, {File("sheet", "pdf", 0)}}

(* _techdraw_pdf is called: the names, then the page and the template are  *)
(* added to the document.                                                  *)
TechDrawAddPage ==
    /\ pc = "idle"
    /\ runs < MaxRuns
    /\ runs' = runs + 1
    /\ \E out \in {"none", "sheet"} :
           call' = TechDrawLocals(out, _make_doc_name(doc, "Sheet_Page"),
                                  _make_doc_name(doc, "Sheet_Template"))
    /\ doc' = doc \o <<TechDrawObject("TechDraw::DrawPage",
                                      _make_doc_name(doc, "Sheet_Page")),
                       TechDrawObject("TechDraw::DrawSVGTemplate",
                                      _make_doc_name(doc, "Sheet_Template"))>>
    /\ calls' = NoCalls
    /\ err' = "none"
    /\ pc' = "template"
    /\ UNCHANGED <<args, params, groups, prefs, outdir, docOpen, files, env, validated>>

(* "template.Template = _resolve_template_path(w, h)", before the try      *)
(* block: a template that cannot be resolved ends the call at once.        *)
TechDrawTemplate ==
    /\ pc = "template"
    /\ IF env.template
       THEN pc' = "views" /\ err' = err
       ELSE pc' = "idle" /\ err' = "FileNotFoundError"
    /\ UNCHANGED <<runs, args, params, doc, groups, prefs, outdir, docOpen, call,
                   files, env, calls, validated>>

(* One pass of the loop over the objects: the view is added to the         *)
(* document, its Source is set, and only then it is put on the page and    *)
(* in created_views.                                                       *)
TechDrawAddView ==
    /\ pc = "views"
    /\ call.index <= Len(groups["objs"])
    /\ doc' = Append(doc, TechDrawObject("TechDraw::DrawViewPart",
                              _make_doc_name(doc, "Sheet_DraftView_"
                                                     \o ToString(call.index))))
    /\ IF env.attach = call.index
       THEN /\ call' = [call EXCEPT !.pending = "RuntimeError"]
            /\ pc' = "finally"
       ELSE /\ call' = [call EXCEPT
                          !.index = @ + 1,
                          !.created_views =
                              Append(@, _make_doc_name(doc, "Sheet_DraftView_"
                                                        \o ToString(call.index)))]
            /\ pc' = "views"
    /\ UNCHANGED <<runs, args, params, groups, err, prefs, outdir, docOpen,
                   files, env, calls, validated>>

(* After the loop: no view is an error; with an output path the PDF that   *)
(* is there is removed before the export.                                  *)
TechDrawViewsDone ==
    /\ pc = "views"
    /\ call.index > Len(groups["objs"])
    /\ IF call.created_views = <<>>
       THEN /\ call' = [call EXCEPT !.pending = "RuntimeError"]
            /\ pc' = "finally"
            /\ UNCHANGED <<files, calls>>
       ELSE IF call.out = "none"
       THEN /\ pc' = "finally"
            /\ UNCHANGED <<call, files, calls>>
       ELSE /\ files' = RemovePdf(files, call.out, runs, PageInDocument(doc, call)).files
            /\ calls' = [calls EXCEPT
                           !.pdf = @ \o RemovePdf(files, call.out, runs,
                                                  PageInDocument(doc, call)).events]
            /\ pc' = "export"
            /\ call' = call
    /\ UNCHANGED <<runs, args, params, doc, groups, err, prefs, outdir, docOpen,
                   env, validated>>

(* An export block has run: the files and the trace it leaves, and where   *)
(* the routine goes after it.                                              *)
TechDrawExported(res, raised, returned) ==
    /\ files' = res.files
    /\ calls' = [calls EXCEPT !.pdf = @ \o res.events]
    /\ IF res.raised THEN raised ELSE returned

(* The export block inside the try. *)
TechDrawExport ==
    /\ pc = "export"
    /\ TechDrawExported(ExportPage(env.has_export, env.export, env.gui, files, call.out,
                                   runs, PageInDocument(doc, call)),
                        call' = [call EXCEPT !.pending = "RuntimeError"],
                        call' = call)
    /\ pc' = "finally"
    /\ UNCHANGED <<runs, args, params, doc, groups, err, prefs, outdir, docOpen,
                   env, validated>>

(* The finally block: the views of created_views, the template and the     *)
(* page are removed; an exception raised in the try block goes on.         *)
TechDrawCleanup ==
    /\ pc = "finally"
    /\ doc' = removeObject(doc, {call.page, call.template}
                  \cup {call.created_views[i] : i \in 1..Len(call.created_views)})
    /\ calls' = [calls EXCEPT
                   !.pdf = Append(@, Event("cleanup", "doc.removeObject",
                                           PageInDocument(doc, call), FALSE))]
    /\ IF call.pending # "none"
       THEN pc' = "idle" /\ err' = call.pending
       ELSE pc' = "after" /\ err' = err
    /\ UNCHANGED <<runs, args, params, groups, prefs, outdir, docOpen, call,
                   files, env, validated>>

(* After the finally block: with an output path the PDF that is there is   *)
(* removed again.                                                          *)
TechDrawAfterCleanup ==
    /\ pc = "after"
    /\ IF call.out = "none"
       THEN pc' = "idle" /\ UNCHANGED <<files, calls>>
       ELSE /\ files' = RemovePdf(files, call.out, runs, PageInDocument(doc, call)).files
            /\ calls' = [calls EXCEPT
                           !.pdf = @ \o RemovePdf(files, call.out, runs,
                                                  PageInDocument(doc, call)).events]
            /\ pc' = "export_again"
    /\ UNCHANGED <<runs, args, params, doc, groups, err, prefs, outdir, docOpen, call,
                   env, validated>>

(* The export block after the finally block, on the removed page. *)
TechDrawExportAgain ==
    /\ pc = "export_again"
    /\ TechDrawExported(ExportPage(env.has_export, env.stale, env.stale, files, call.out,
                                   runs, PageInDocument(doc, call)),
                        err' = "RuntimeError", err' = err)
    /\ pc' = "idle"
    /\ UNCHANGED <<runs, args, params, doc, groups, prefs, outdir, docOpen, call,
                   env, validated>>

NextTechDraw ==
    \/ TechDrawAddPage
    \/ TechDrawTemplate
    \/ TechDrawAddView
    \/ TechDrawViewsDone
    \/ TechDrawExport
    \/ TechDrawCleanup
    \/ TechDrawAfterCleanup
    \/ TechDrawExportAgain

SpecTechDraw == InitTechDraw /\ [][NextTechDraw]_vars

---------------------------------------------------------------------------
(* SVG tiling (wheelbarrow/svg_tiling.py): direct calls of tile_svg_to_a4. *)
(* Lengths are integers of 1/TileRes thousandths of a millimetre, so that  *)
(* a source viewBox can be finer than the three decimals a tile is written *)
(* with.                                                                   *)

(* Resolution of the tiling model: units per 0.001 mm. *)
TileRes == 10

(* A number of millimetres, in tiling units. *)
TileMm(v) == v * 1000 * TileRes

(* f"{x:.3f}": the value rounded to three decimals, as the tile stores it. *)
Format3(x) == RDiv(x, TileRes) * TileRes

(* math.ceil(a / b) for b # 0. *)
Ceil(a, b) == IF b > 0 THEN 0 - ((0 - a) \div b) ELSE 0 - (a \div (0 - b))

(* "cols = max(1, int(math.ceil((vw + overlap_mm) / step_x)))" *)
TileCount(extent, overlap_mm, step) == Max2(1, Ceil(extent + overlap_mm, step))

(* "x0 = vx + col * step_x", as the viewBox attribute stores it. *)
TileStart_IgnoresOrigin(v, k, step) == Format3(k * step)

TileStart(v, k, step) == Format3(v + k * step)

(* f"tile_r{row + 1}_c{col + 1}" *)
TileName(row, col) == "tile_r" \o ToString(row + 1) \o "_c" \o ToString(col + 1)

(* The tile file of one row and column: its name and its viewBox. *)
TileFile(row, col, run, box) ==
    [base |-> TileName(row, col), ext |-> "svg", run |-> run, viewBox |-> box]

(* The source viewBox: the viewBox attribute, or without one the numbers   *)
(* the width and height attributes start with, from (0, 0).                *)
SourceBox(svg) ==
    IF svg.viewBox # <<>> THEN svg.viewBox ELSE <<0, 0, svg.width, svg.height>>

(* The two loops of tile_svg_to_a4: one file per row and column. *)
Tiles(box, paper_size, overlap_mm, rows, cols, run) ==
    {TileFile(row, col, run,
              <<TileStart(box[1], col, paper_size[1] - overlap_mm),
                TileStart(box[2], row, paper_size[2] - overlap_mm),
                Format3(paper_size[1]), Format3(paper_size[2])>>) :
        row \in 0..(rows - 1), col \in 0..(cols - 1)}

(* Writing a set of files: each replaces the file of its name. *)
Written(fs, new) ==
    {f \in fs : \A n \in new : n.base # f.base \/ n.ext # f.ext} \cup new

(* What tile_svg_to_a4 did: the files it left, the rows and columns its    *)
(* closing message reports, the exception it raised.                       *)
Tiled(fs, rows, cols, raised) ==
    [files |-> fs, rows |-> rows, cols |-> cols, err |-> raised]

(* tile_svg_to_a4 once the viewBox is known. *)
TileBox(box, paper_size, overlap_mm, fs, run) ==
    IF paper_size[1] = overlap_mm \/ paper_size[2] = overlap_mm
    THEN Tiled(fs, 0, 0, "ZeroDivisionError")
    ELSE Tiled(Written(fs, Tiles(box, paper_size, overlap_mm,
                                 TileCount(box[4], overlap_mm, paper_size[2] - overlap_mm),
                                 TileCount(box[3], overlap_mm, paper_size[1] - overlap_mm),
                                 run)),
               TileCount(box[4], overlap_mm, paper_size[2] - overlap_mm),
               TileCount(box[3], overlap_mm, paper_size[1] - overlap_mm),
               "none")

(* tile_svg_to_a4(svg_in, out_dir, paper_size, overlap_mm=...) *)
tile_svg_to_a4(svg, paper_size, overlap_mm, defusedxml, fs, run) ==
    IF ~defusedxml THEN Tiled(fs, 0, 0, "ImportError")
    ELSE TileBox(SourceBox(svg), paper_size, overlap_mm, fs, run)

(* PAPER_SIZES_MM["A4"], which main passes. *)
A4 == <<TileMm(210), TileMm(297)>>

(* The source drawings: viewBoxes on and off the grid of three decimals,   *)
(* empty, smaller and larger than a page, and a drawing without viewBox.   *)
SourceSvgs ==
    {[viewBox |-> <<vx, vy, vw, vh>>, width |-> 0, height |-> 0] :
        vx \in {0, 6, 4 - TileMm(20)}, vy \in {0, TileMm(5) + 3},
        vw \in {0, TileMm(204), TileMm(210), TileMm(700)},
        vh \in {TileMm(100), TileMm(600)}}
    \cup {[viewBox |-> <<>>, width |-> TileMm(420), height |-> TileMm(297)]}

(* The overlaps a caller passes: the default 6 mm, none, 6.0006 mm, a      *)
(* negative one, and overlaps as large as the page and larger.             *)
Overlaps ==
    {TileMm(6), 0, TileMm(6) + 6, 0 - TileMm(10), TileMm(210), TileMm(297), TileMm(400)}

(* Tiles an earlier call left in the output directory. *)
OldTiles ==
    {TileFile(row, col, 0, <<0, 0, A4[1], A4[2]>>) : row \in {0, 8}, col \in {0}}

TileCall(svg, overlap_mm, defusedxml) ==
    [builder |-> "tile_svg_to_a4", svg |-> svg, paper_size |-> A4,
     overlap_mm |-> overlap_mm, defusedxml |-> defusedxml, rows |-> 0, cols |-> 0]

InitTiling ==
    /\ pc = "call"
    /\ runs = 1
    /\ args = NoArgs
    /\ params = NoParams
    /\ doc = <<>>
    /\ groups = NoGroups
    /\ err = "none"
    /\ prefs = FALSE
    /\ outdir = TRUE
    /\ docOpen = FALSE
    /\ env = AllWork
    /\ calls = NoCalls
    /\ validated = FALSE
    /\ files \in {{}, OldTiles}
    /\ call \in {TileCall(svg, o, d) : svg \in SourceSvgs, o \in Overlaps, d \in BOOLEAN}

(* A call of tile_svg_to_a4: the tiles reach the output directory. *)
TileStep(res) ==
    /\ pc = "call"
    /\ call.builder = "tile_svg_to_a4"
    /\ files' = res.files
    /\ call' = [call EXCEPT !.rows = res.rows, !.cols = res.cols]
    /\ err' = res.err
    /\ pc' = "done"
    /\ UNCHANGED <<runs, args, params, doc, groups, prefs, outdir, docOpen,
                   env, calls, validated>>

CallTile ==
    TileStep(tile_svg_to_a4(call.svg, call.paper_size, call.overlap_mm,
                            call.defusedxml, files, runs))

NextTiling == CallTile

SpecTiling == InitTiling /\ [][NextTiling]_vars

---------------------------------------------------------------------------
(* Properties: layout *)

(* Tolerance, in model units, of a comparison of computed coordinates. *)
Tol == 2

(* layout_parts has built every part of the current call of main. *)
LaidOut == pc \in {"validate", "export"}

(* The bounding box of the shapes of one part: <<xmin, xmax, ymin, ymax>>. *)
PartBox(shapes) ==
    LET xs == UNION {Coords(shapes[j], 1) : j \in 1..Len(shapes)}
        ys == UNION {Coords(shapes[j], 2) : j \in 1..Len(shapes)}
    IN  <<SetMin(xs), SetMax(xs), SetMin(ys), SetMax(ys)>>

(* Two boxes share more than boundary points. *)
BoxesOverlap(a, b) == a[1] < b[2] /\ b[1] < a[2] /\ a[3] < b[4] /\ b[3] < a[4]

(* C1: for the default parameters at each scale 0.1, 1, 5, 20, the bounding  *)
(* boxes of the parts layout_parts has built are pairwise disjoint or touch  *)
(* only on their boundary.                                                   *)
C1_PartBoxesDisjoint ==
    LaidOut =>
        \A k1 \in DOMAIN groups, k2 \in DOMAIN groups :
            k1 # k2 => ~BoxesOverlap(PartBox(groups[k1]), PartBox(groups[k2]))

(* The points of a part's geometry: the vertices of its wires and the *)
(* centres of its circles, in order.                                  *)
RECURSIVE PartPoints(_)
PartPoints(shapes) ==
    IF shapes = <<>> THEN <<>>
    ELSE (IF Head(shapes).kind = "circle" THEN <<Head(shapes).center>>
          ELSE Head(shapes).pts) \o PartPoints(Tail(shapes))

(* A length got at scale s (tenths) is s times the length ref got at scale 1, *)
(* to within 2 mm at either scale.                                            *)
ScalesBy(got, ref, s) == Abs(10 * got - s * ref) <= Mm(2) * (10 + s)

(* Every distance along x and along y between two points of the part, and *)
(* every radius, is s times the one of the part made at scale 1.          *)
PartScalesBy(shapes, ref, s) ==
    LET p == PartPoints(shapes)
        q == PartPoints(ref)
    IN  /\ Len(p) = Len(q)
        /\ \A a \in 1..Len(p), b \in 1..Len(p), d \in 1..2 :
               a < b => ScalesBy(p[a][d] - p[b][d], q[a][d] - q[b][d], s)
        /\ \A j \in 1..Len(shapes) : ScalesBy(shapes[j].radius, ref[j].radius, s)

(* C2: every linear distance of every part generated from scaled_params(s) *)
(* is s times the corresponding distance generated at scale 1, the front   *)
(* panel's straight side height and arc rise included.                     *)
C2_DistancesScale ==
    LaidOut =>
        \A k \in DOMAIN groups :
            PartScalesBy(groups[k], layout_parts(scaled_params(10), 10)[k], args.scale)

---------------------------------------------------------------------------
(* Properties: front panel *)

(* A direct call of make_front_panel has returned. *)
FrontDone == pc = "done" /\ call.builder = "front" /\ err = "none"

(* Its width, height and rise are positive and the rise is below the height. *)
PlainPanel ==
    /\ params.box_inner_width_front > 0
    /\ call.arc_height > 0
    /\ params.box_inner_depth > call.arc_height

(* The y of the chord: the top of the panel's straight sides. *)
ChordY == call.origin[2] + params.box_inner_depth - call.arc_height

(* The index in the outline of arc sample i (0 .. segments). *)
ArcIndex(i) == 4 + i

(* C3: the top arc bulges upward: every arc sample is at or above the chord *)
(* y = base + body_h, and the middle sample is at the full panel height     *)
(* body_h + f above the base.                                               *)
C3_ArcBulgesUp ==
    (FrontDone /\ PlainPanel) =>
        /\ \A i \in 0..FrontSegments : doc[1].pts[ArcIndex(i)][2] >= ChordY - Tol
        /\ Abs(doc[1].pts[ArcIndex(FrontSegments \div 2)][2]
               - (call.origin[2] + params.box_inner_depth)) <= Tol

(* Two points coincide to within the tolerance. *)
Near(p, q) == Abs(p[1] - q[1]) <= Tol /\ Abs(p[2] - q[2]) <= Tol

(* C4: the first arc point is the end of the right side, (x + W, y + body_h), *)
(* and the last arc point is the start of the left side, (x, y + body_h).     *)
C4_ArcJoinsSides ==
    (FrontDone /\ PlainPanel) =>
        /\ doc[1].pts[3] = Pt(call.origin[1] + params.box_inner_width_front, ChordY)
        /\ Near(doc[1].pts[ArcIndex(0)], doc[1].pts[3])
        /\ doc[1].pts[ArcIndex(FrontSegments) + 1] = Pt(call.origin[1], ChordY)
        /\ Near(doc[1].pts[ArcIndex(FrontSegments)], doc[1].pts[ArcIndex(FrontSegments) + 1])

(* C9: a front panel with arc rise f <= 0 is rejected with an error and *)
(* leaves no front-panel geometry.                                      *)
C9_NonPositiveRiseRejected ==
    (pc = "done" /\ call.builder = "front" /\ call.arc_height <= 0
        /\ params.box_inner_width_front > 0 /\ params.box_inner_depth > 0)
    => (err # "none" /\ doc = <<>>)

---------------------------------------------------------------------------
(* Properties: rails *)

(* A direct call of make_rails has returned. *)
RailsBuilt == call.builder = "rails" /\ pc \in {"mirror", "done"} /\ err = "none"

(* The rail of the specification's worked example. *)
ExampleRail == RailParams(500, 40, 25, 300, 40, 6)

(* (L - x_taper) * the width the taper's line has at x. *)
TaperLine(x) ==
    params.rail_width_rear * (params.rail_length - params.rail_taper_start)
        + (params.rail_width_front - params.rail_width_rear)
              * (x - params.rail_taper_start)

(* C5: the axle hole's centre is, in local coordinates, x = L - axle_from_front *)
(* and y = -width(x) / 2, and its radius is axle_diameter / 2; the worked       *)
(* example gives centre (460, -14) and radius 3.                                *)
C5_AxleHole ==
    RailsBuilt =>
        LET hole == doc[2]
            lx == hole.center[1] - call.origin[1]
            ly == hole.center[2] - call.origin[2]
            run == params.rail_length - params.rail_taper_start
        IN  /\ hole.kind = "circle"
            /\ lx = params.rail_length - params.axle_from_front
            /\ IF lx <= params.rail_taper_start
               THEN Abs(2 * ly + params.rail_width_rear) <= 1
               ELSE Abs(2 * ly * run + TaperLine(lx)) <= 2 * Abs(run)
            /\ Abs(2 * hole.radius - params.axle_diameter) <= 1
            /\ params = ExampleRail =>
                   /\ lx = Mm(460)
                   /\ ly = 0 - Mm(14)
                   /\ hole.radius = Mm(3)

C5_Witness ==
    /\ RailsBuilt
    /\ params = ExampleRail
    /\ doc[2].center = Pt(call.origin[1] + Mm(460), call.origin[2] - Mm(14))

(* C6: the mirrored rail's outline is point for point the reflection of the *)
(* unmirrored outline in the vertical line through the origin, and so is    *)
(* the axle hole's centre.                                                  *)
C6_MirrorReflects ==
    (RailsBuilt /\ pc = "done") =>
        LET ox == call.origin[1]
            plain == doc[1]
            mirrored == doc[9]
        IN  /\ Len(doc) = 16
            /\ mirrored.kind = "wire"
            /\ Len(mirrored.pts) = Len(plain.pts)
            /\ \A i \in 1..Len(plain.pts) :
                   /\ mirrored.pts[i][1] = ox - (plain.pts[i][1] - ox)
                   /\ mirrored.pts[i][2] = plain.pts[i][2]
            /\ doc[10].center[1] = ox - (doc[2].center[1] - ox)
            /\ doc[10].center[2] = doc[2].center[2]

C6_Witness ==
    /\ RailsBuilt
    /\ pc = "done"
    /\ call.origin[1] # 0
    /\ params.rail_length > 0
    /\ doc[9].pts[2][1] < call.origin[1]
    /\ doc[1].pts[2][1] > call.origin[1]

(* The local x and the width of bottom sample i (0 .. N) of the built rail. *)
SampleX(i) == doc[1].pts[3 + i][1] - call.origin[1]

SampleW(i) == call.origin[2] - doc[1].pts[3 + i][2]

(* The taper starts inside the rail. *)
TaperInside == 0 <= params.rail_taper_start /\ params.rail_taper_start < params.rail_length

(* C7: the rail's width is w0 up to x_taper and on the line from w0 at     *)
(* x_taper to w1 at L after it; it does not jump at x_taper, is exactly w1 *)
(* at x = L, and is monotonic on [x_taper, L].                             *)
C7_TaperWidth ==
    (RailsBuilt /\ TaperInside) =>
        LET run == params.rail_length - params.rail_taper_start
            w0 == params.rail_width_rear
            w1 == params.rail_width_front
        IN  /\ \A i \in 0..RailN :
                   IF SampleX(i) <= params.rail_taper_start
                   THEN SampleW(i) = w0
                   ELSE Abs(SampleW(i) * run - TaperLine(SampleX(i))) <= run
            /\ SampleX(0) = params.rail_length
            /\ SampleW(0) = w1
            /\ width_at(params, params.rail_taper_start) = w0
            /\ Abs(width_at(params, params.rail_taper_start + 1) - w0) * run
                   <= Abs(w1 - w0) + run
            /\ \A i \in 0..(RailN - 1) :
                   SampleX(i + 1) >= params.rail_taper_start =>
                       /\ w1 < w0 => SampleW(i) <= SampleW(i + 1)
                       /\ w1 > w0 => SampleW(i) >= SampleW(i + 1)

C7_Witness ==
    /\ RailsBuilt
    /\ TaperInside
    /\ params.rail_taper_start > 0
    /\ params.rail_width_front < params.rail_width_rear
    /\ \E i \in 1..(RailN - 1) :
           /\ SampleX(i) > params.rail_taper_start
           /\ SampleW(i) > params.rail_width_front
           /\ SampleW(i) < params.rail_width_rear

(* C8: a rail whose taper starts at or after the rail's end is rejected with *)
(* an error and leaves no rail geometry.                                     *)
C8_TaperPastEndRejected ==
    (call.builder = "rails" /\ pc \in {"mirror", "done"}
        /\ params.rail_length > 0 /\ params.rail_width_rear > 0
        /\ params.rail_width_front > 0 /\ params.axle_diameter > 0
        /\ params.rail_taper_start >= params.rail_length)
    => (err # "none" /\ doc = <<>>)

---------------------------------------------------------------------------
(* Properties: every builder *)

(* The lengths, widths and diameters a builder reads. *)
SizeFields(b) ==
    CASE b = "rails" ->
           {"rail_length", "rail_width_rear", "rail_width_front", "axle_diameter"}
      [] b = "bottom" ->
           {"box_inner_length", "box_inner_width_rear", "box_inner_width_front"}
      [] b = "side" -> {"box_inner_length", "box_inner_depth"}
      [] b = "front" -> {"box_inner_width_front", "box_inner_depth"}
      [] b = "spreaders" -> {"spreader_length", "spreader_height"}
      [] b = "legs" -> {"leg_height", "leg_width"}
      [] b = "block" -> {"block_length", "block_width", "axle_diameter"}
      [] b = "wheel" -> {"wheel_diameter", "wheel_hole_diameter"}
      [] OTHER -> {}

(* C10: a builder given a non-positive length, width or diameter raises an *)
(* error and emits no geometry.                                            *)
C10_NonPositiveRejected ==
    (pc \in {"mirror", "done"} /\ \E k \in SizeFields(call.builder) : params[k] <= 0)
    => (err # "none" /\ doc = <<>>)

---------------------------------------------------------------------------
(* Properties: main *)

(* C11: a call of main with a scale that is zero or negative ends with an  *)
(* error and leaves the export preferences, the output directory, the      *)
(* document, its objects and the files as they were.                       *)
C11_BadScaleAborts ==
    [][(pc = "idle" /\ runs' = runs + 1 /\ args'.scale <= 0) =>
          /\ err' = "ValueError"
          /\ pc' = "idle"
          /\ UNCHANGED <<prefs, outdir, docOpen, doc, params, files>>]_vars

C11_Witness ==
    /\ pc = "idle"
    /\ runs > 0
    /\ args.scale <= 0
    /\ err = "ValueError"
    /\ ~prefs /\ ~outdir /\ ~docOpen /\ doc = <<>> /\ files = {}

(* The files the current run of main has written. *)
FreshFiles == {f \in files : f.run = runs}

(* The mapping has every part key. *)
AllBuilt == DOMAIN groups = {PartKeys[n] : n \in 1..Len(PartKeys)}

(* C12: main starts no export, and no file of the run exists, before every *)
(* part is built and (with --validate) validation has passed; a run that   *)
(* a builder or validation ended has left no file.                         *)
C12_ExportsAfterLayoutAndValidation ==
    /\ (FreshFiles # {} \/ pc \in {"export", "export_all", "pdf", "save"}) =>
           (AllBuilt /\ (args.validate => validated))
    /\ (pc = "idle" /\ err \in {"AssertionError", "ZeroDivisionError"}) =>
           FreshFiles = {}

C12_Witness ==
    /\ pc = "idle"
    /\ args.validate
    /\ err = "AssertionError"
    /\ AllBuilt
    /\ files # {}
    /\ FreshFiles = {}

---------------------------------------------------------------------------
(* Properties: placement and annotation *)

(* The origin a part was built at, read back from its shapes: the corner   *)
(* of the wheel's box, the middle of the tray bottom's rear edge, else the *)
(* first vertex of the first outline.                                      *)
PartOrigin(key, shapes) ==
    CASE key = "wheel" ->
           Pt(shapes[1].center[1] - shapes[1].radius,
              shapes[1].center[2] - shapes[1].radius)
      [] key = "bottom" ->
           Pt(shapes[1].pts[1][1], (shapes[1].pts[1][2] + shapes[1].pts[4][2]) \div 2)
      [] OTHER -> shapes[1].pts[1]

(* The gap between the two spreaders (along y) or the two legs (along x). *)
PartGap(key, shapes) ==
    IF key = "spreaders" THEN shapes[2].pts[1][2] - shapes[1].pts[4][2]
    ELSE shapes[2].pts[1][1] - shapes[1].pts[2][1]

(* A coordinate got at scale s (tenths) is s times the one got at scale 1, *)
(* to within the rounding of the model at either scale.                    *)
PlaceScalesBy(got, ref, s) == Abs(10 * got - s * ref) <= Tol * (10 + s)

(* C13: the origin of every part, and the gap of the spreaders and of the  *)
(* legs, at scale s is s times the origin (gap) at scale 1.                *)
C13_OriginsScale ==
    LaidOut =>
        /\ \A k \in DOMAIN groups, d \in 1..2 :
               PlaceScalesBy(PartOrigin(k, groups[k])[d],
                             PartOrigin(k, layout_parts(scaled_params(10), 10)[k])[d],
                             args.scale)
        /\ \A k \in {"spreaders", "legs"} :
               PlaceScalesBy(PartGap(k, groups[k]),
                             PartGap(k, layout_parts(scaled_params(10), 10)[k]),
                             args.scale)

C13_Witness ==
    /\ LaidOut
    /\ args.scale = 50
    /\ PartOrigin("rail_left", groups["rail_left"]) = Pt(0, Mm(1750))
    /\ PartOrigin("wheel", groups["wheel"]) = Pt(Mm(2700), Mm(1100))
    /\ PartGap("legs", groups["legs"]) = Mm(60)

(* The index of the first object the current run of main added. *)
RunStart == SetMax(Labelled_in(doc, {"RAIL_LEFT_PROFILE"}))

(* The label-anchor points of the dimensions and the anchor points of the  *)
(* texts the current run added.                                            *)
Anchors ==
    {doc[i].pts[3] : i \in {j \in RunStart..Len(doc) : doc[j].kind = "dim"}}
        \cup {doc[i].pts[1] : i \in {j \in RunStart..Len(doc) : doc[j].kind = "text"}}

(* The point is strictly inside the circle, or strictly inside the         *)
(* bounding box of the outline.                                            *)
InsideShape(p, shape) ==
    IF shape.kind = "circle"
    THEN /\ Abs(p[1] - shape.center[1]) < Abs(shape.radius)
         /\ Abs(p[2] - shape.center[2]) < Abs(shape.radius)
         /\ (p[1] - shape.center[1]) * (p[1] - shape.center[1])
                + (p[2] - shape.center[2]) * (p[2] - shape.center[2])
              < shape.radius * shape.radius
    ELSE /\ SetMin(Coords(shape, 1)) < p[1] /\ p[1] < SetMax(Coords(shape, 1))
         /\ SetMin(Coords(shape, 2)) < p[2] /\ p[2] < SetMax(Coords(shape, 2))

(* C14: for the default parameters at each tested scale, no label anchor   *)
(* of a dimension and no anchor of a text lies inside the outline (or the  *)
(* bounding box) of any part.                                              *)
C14_LabelsOutsideOutlines ==
    LaidOut =>
        \A p \in Anchors, k \in DOMAIN groups :
            \A j \in 1..Len(groups[k]) : ~InsideShape(p, groups[k][j])

(* The builder call layout_parts makes for a key. *)
PartCall(key, p, scale) ==
    CASE key = "rail_left" -> RailLeftCall(p, scale)
      [] key = "rail_right" -> RailRightCall(p, scale)
      [] key = "bottom" -> BottomCall(p, scale)
      [] key = "side_left" -> SideLeftCall(p, scale)
      [] key = "side_right" -> SideRightCall(p, scale)
      [] key = "front" -> FrontCall(p, scale)
      [] key = "spreaders" -> SpreadersCall(p, scale)
      [] key = "legs" -> LegsCall(p, scale)
      [] key = "axle_block" -> AxleBlockCall(p, scale)
      [] OTHER -> WheelCall(p, scale)

(* The index in the document of the first object the current run made for *)
(* a key: the first object of the run that has the label of the key's     *)
(* first shape.                                                           *)
PartAt(key) ==
    SetMin({j \in RunStart..Len(doc) :
               doc[j].Label = PartCall(key, params, args.scale).ret[1].Label})

(* How many shapes a key's builder makes before its first dimension. *)
ShapeCount(key) == Len(PartCall(key, params, args.scale).ret)

(* The y of the edge a part's first dimension measures from: the lower     *)
(* edge of the outline, the top of the wheel.                              *)
EdgeY(key, shape) ==
    CASE key \in {"rail_left", "rail_right"} -> SetMin(Coords(shape, 2))
      [] key = "bottom" -> shape.pts[4][2]
      [] key = "wheel" -> shape.center[2] + shape.radius
      [] OTHER -> shape.pts[1][2]

(* The margins of a part's first dimension: from the measured edge to the  *)
(* dimension line (none for the wheel, whose line is the diameter) and to  *)
(* the label anchor.                                                       *)
MarginsOf(key, shape, dim) ==
    <<IF key = "wheel" THEN 0 ELSE Abs(EdgeY(key, shape) - dim.pts[1][2]),
      Abs(EdgeY(key, shape) - dim.pts[3][2])>>

(* C15: the annotation margins of every part are the same at every scale:  *)
(* they are the margins the part has at scale 1.                           *)
C15_MarginsFixed ==
    LaidOut =>
        \A k \in DOMAIN groups :
            MarginsOf(k, doc[PartAt(k)], doc[PartAt(k) + ShapeCount(k)])
              = MarginsOf(k, PartCall(k, scaled_params(10), 10).made[1],
                          PartCall(k, scaled_params(10), 10).made[ShapeCount(k) + 1])

---------------------------------------------------------------------------
(* Properties: wheel *)

(* A direct call of make_wheel has returned. *)
WheelBuilt == pc = "done" /\ call.builder = "wheel" /\ err = "none"

(* C16: the wheel's outer circle and hub circle have the same centre,      *)
(* (origin.x + D/2, origin.y + D/2), and the radii D/2 and dH/2.           *)
C16_WheelConcentric ==
    WheelBuilt =>
        /\ doc[1].Label = "WHEEL_OUTER" /\ doc[1].kind = "circle"
        /\ doc[2].Label = "WHEEL_HUB" /\ doc[2].kind = "circle"
        /\ doc[1].center = doc[2].center
        /\ \A d \in 1..2 :
               Abs(2 * (doc[1].center[d] - call.origin[d]) - params.wheel_diameter) <= 1
        /\ Abs(2 * doc[1].radius - params.wheel_diameter) <= 1
        /\ Abs(2 * doc[2].radius - params.wheel_hole_diameter) <= 1

C16_Witness ==
    /\ WheelBuilt
    /\ call.origin = Pt(Mm(30), Mm(350))
    /\ params.wheel_diameter = Mm(2400)
    /\ params.wheel_hole_diameter = Mm(6)
    /\ doc[2].center = Pt(Mm(1230), Mm(1550))
    /\ doc[2].radius = Mm(3)

---------------------------------------------------------------------------
(* Properties: what one rail invocation outputs *)

(* One call of make_rails has returned and nothing else has run since. *)
OneRail == RailsBuilt /\ pc = "mirror"

(* How many objects of a kind the document holds. *)
CountKind(kind) == Cardinality({i \in 1..Len(doc) : doc[i].kind = kind})

(* The rail's outline is closed and its four linear dimensions measure the *)
(* overall length, the rear width, the front width and the axle setback.   *)
RailShapesAndDims ==
    /\ CountKind("wire") = 1
    /\ doc[1].kind = "wire" /\ doc[1].pts[1] = doc[1].pts[Len(doc[1].pts)]
    /\ CountKind("circle") = 1
    /\ CountKind("text") = 1
    /\ doc[3].kind = "dim" /\ doc[3].pts[2][1] - doc[3].pts[1][1] = params.rail_length
    /\ doc[4].kind = "dim" /\ doc[4].pts[1][2] - doc[4].pts[2][2] = params.rail_width_rear
    /\ doc[5].kind = "dim" /\ doc[5].pts[1][2] - doc[5].pts[2][2] = params.rail_width_front
    /\ doc[6].kind = "dim" /\ doc[6].pts[1][1] - doc[6].pts[2][1] = params.axle_from_front

(* C17: one rail invocation outputs one closed polygon, one circle, four   *)
(* dimensions (overall length, rear width, front width, axle setback) and  *)
(* one text label, and nothing else.                                       *)
C17_RailOutputs ==
    OneRail => (RailShapesAndDims /\ CountKind("dim") = 4 /\ Len(doc) = 7)

(* C17 as amended: the invocation also outputs a fifth dimension, the      *)
(* diameter of the axle hole, drawn through the hole's centre: eight       *)
(* objects in all.                                                         *)
C17_RailOutputsWithDiameter ==
    OneRail =>
        /\ RailShapesAndDims
        /\ CountKind("dim") = 5
        /\ Len(doc) = 8
        /\ doc[8].kind = "dim"
        /\ doc[8].pts[1][2] = doc[2].center[2] /\ doc[8].pts[2][2] = doc[2].center[2]
        /\ doc[8].pts[1][1] + doc[8].pts[2][1] = 2 * doc[2].center[1]
        /\ doc[8].pts[2][1] - doc[8].pts[1][1] = 2 * doc[2].radius

C17_Witness ==
    /\ OneRail
    /\ params = ExampleRail
    /\ Len(doc) = 8
    /\ doc[8].pts[1] = Pt(call.origin[1] + Mm(457), call.origin[2] - Mm(14))
    /\ doc[8].pts[2] = Pt(call.origin[1] + Mm(463), call.origin[2] - Mm(14))

---------------------------------------------------------------------------
(* Properties: exporters *)

(* A direct call of export_group with objects has run both chains. *)
Exported ==
    pc = "done" /\ call.builder = "export_group" /\ groups["objs"] # <<>>

(* A runner call succeeded: it raised nothing and the file exists after it. *)
Succeeded(c) == ~c.raised /\ c.exists

(* The chain tried the exporters in the order importer, Draft, Import; it  *)
(* went on after every failure and stopped at the first success.           *)
ChainInOrder(chain, importer) ==
    /\ Len(chain) \in 1..3
    /\ \A k \in 1..Len(chain) : chain[k].fn = <<importer, "Draft", "Import">>[k]
    /\ \A k \in 1..(Len(chain) - 1) : ~Succeeded(chain[k])
    /\ Len(chain) < 3 => Succeeded(chain[Len(chain)])

(* C18: for DXF and for SVG export_group tries the format's importer, then *)
(* Draft.export, then Import.export; a call succeeds only if it raised     *)
(* nothing and the file exists afterwards; a later exporter is called if   *)
(* and only if every earlier one failed.                                   *)
C18_ExportChainOrder ==
    Exported =>
        /\ ChainInOrder(calls.dxf, "importDXF")
        /\ ChainInOrder(calls.svg, "importSVG")

C18_Witness ==
    /\ Exported
    /\ Len(calls.dxf) = 2
    /\ calls.dxf[1] = [fn |-> "importDXF", raised |-> FALSE, exists |-> FALSE]
    /\ Succeeded(calls.dxf[2])
    /\ Len(calls.svg) = 3
    /\ calls.svg[1].raised
    /\ ~Succeeded(calls.svg[3])
    /\ err = "RuntimeError"

---------------------------------------------------------------------------
(* Properties: PDF backend *)

(* A direct call of make_pdf_page_from_objects has ended. *)
PdfDone == pc = "done" /\ call.builder = "make_pdf_page_from_objects"

(* The names of the renderers the call attempted, in order. *)
Attempted == [k \in 1..Len(calls.pdf) |-> calls.pdf[k].fn]

(* What the backend name b makes the call attempt. *)
BackendDecides(b) ==
    CASE b = "techdraw" ->
           IF env.techdraw_available THEN Attempted = <<"techdraw">>
           ELSE Attempted = <<>> /\ err = "RuntimeError"
      [] b = "qt" -> Attempted = <<"qt">>
      [] b = "auto" ->
           IF ~env.techdraw_available THEN Attempted = <<"qt">>
           ELSE /\ Attempted \in {<<"techdraw">>, <<"techdraw", "qt">>}
                /\ Len(calls.pdf) = 2 <=> calls.pdf[1].raised
      [] OTHER -> Attempted = <<>> /\ err = "ValueError"

(* C19: the backend option alone decides the renderers attempted:          *)
(* 'techdraw' only TechDraw (an error when it is unavailable), 'qt' only   *)
(* Qt, 'auto' TechDraw first when available and Qt only when TechDraw is   *)
(* unavailable or raised; any other value raises ValueError before any     *)
(* renderer runs.                                                          *)
C19_BackendDecides == PdfDone => BackendDecides(args.pdf_backend)

(* C19 as amended: the option is compared without regard to case; a value  *)
(* whose lower-case form is none of the three raises ValueError.           *)
C19_BackendDecidesAnyCase == PdfDone => BackendDecides(lower(args.pdf_backend))

C19_Witness ==
    /\ PdfDone
    /\ args.pdf_backend = "Auto"
    /\ env.techdraw_available
    /\ calls.pdf = <<[fn |-> "techdraw", raised |-> TRUE], [fn |-> "qt", raised |-> FALSE]>>
    /\ err = "none"
    /\ File("part", "pdf", runs) \in files

---------------------------------------------------------------------------
(* Properties: the mapping handed to the exporter *)

(* Every key is mapped to a non-empty list of labelled shapes. *)
GroupsLabelled ==
    \A k \in DOMAIN groups :
        /\ groups[k] # <<>>
        /\ \A j \in 1..Len(groups[k]) :
               groups[k][j].kind \in {"wire", "circle"} /\ groups[k][j].Label # ""

(* main is exporting: layout_parts has returned its mapping. *)
HandedOver == pc \in {"export", "export_all", "pdf", "save"}

---------------------------------------------------------------------------
(* Properties: the rail's outline *)

(* Point k of the unmirrored rail's outline, before the translation. *)
OutlineLocal(k) ==
    Pt(doc[1].pts[k][1] - call.origin[1], doc[1].pts[k][2] - call.origin[2])

(* w is width(x) of the taper function, to the rounding of one division. *)
IsWidthAt(w, x) ==
    IF x <= params.rail_taper_start THEN w = params.rail_width_rear
    ELSE Abs(w * (params.rail_length - params.rail_taper_start) - TaperLine(x))
             <= Abs(params.rail_length - params.rail_taper_start)

(* C21: the rail outline is the top edge (0,0), (L,0), then 61 bottom      *)
(* samples at x_i = L - L*i/60 for i = 0..60, from x = L to x = 0, each    *)
(* with y = -width(x_i), then the start point (0,0) again: 64 points.      *)
C21_RailOutlinePoints ==
    RailsBuilt =>
        /\ doc[1].kind = "wire"
        /\ Len(doc[1].pts) = 64
        /\ OutlineLocal(1) = Pt(0, 0)
        /\ OutlineLocal(2) = Pt(params.rail_length, 0)
        /\ \A i \in 0..60 :
               /\ Abs(60 * (params.rail_length - OutlineLocal(3 + i)[1])
                          - params.rail_length * i) <= 30
               /\ IsWidthAt(0 - OutlineLocal(3 + i)[2], OutlineLocal(3 + i)[1])
        /\ OutlineLocal(3)[1] = params.rail_length
        /\ OutlineLocal(63)[1] = 0
        /\ \A i \in 0..59 :
               params.rail_length >= 0 => OutlineLocal(4 + i)[1] <= OutlineLocal(3 + i)[1]
        /\ OutlineLocal(64) = Pt(0, 0)

C21_Witness ==
    /\ RailsBuilt
    /\ params = ExampleRail
    /\ call.origin = Pt(Mm(30), Mm(350))
    /\ Len(doc[1].pts) = 64
    /\ OutlineLocal(3) = Pt(Mm(500), 0 - Mm(25))
    /\ OutlineLocal(15) = Pt(Mm(400), 0 - RDiv(Mm(65), 2))
    /\ OutlineLocal(63) = Pt(0, 0 - Mm(40))

---------------------------------------------------------------------------
(* Properties: the front panel's arc *)

(* The square of the distance between two points. *)
Dist2(p, q) == (p[1] - q[1]) * (p[1] - q[1]) + (p[2] - q[2]) * (p[2] - q[2])

(* The rectilinear distance between two points. *)
Dist1(p, q) == Abs(p[1] - q[1]) + Abs(p[2] - q[2])

(* R = (f^2 + (c/2)^2) / (2 f) for the chord and the rise of the call. *)
ChordRadius ==
    RDiv(4 * call.arc_height * call.arc_height
             + params.box_inner_width_front * params.box_inner_width_front,
         8 * call.arc_height)

(* The point of the chord's vertical bisector that is R - f below the chord. *)
ChordCentre ==
    Pt(call.origin[1] + RDiv(params.box_inner_width_front, 2),
       ChordY - (ChordRadius - call.arc_height))

(* The two ends of the chord. *)
ChordEnds ==
    {Pt(call.origin[1], ChordY),
     Pt(call.origin[1] + params.box_inner_width_front, ChordY)}

(* The point p is at distance R from the centre, to within the tolerance. *)
OnArcCircle(p) ==
    Abs(Dist2(p, ChordCentre) - ChordRadius * ChordRadius)
        <= 2 * Tol * ChordRadius + Tol * Tol

(* Arc sample i (0 .. segments) of the built front panel. *)
ArcSample(i) == doc[1].pts[ArcIndex(i)]

(* The chords from sample i and from sample j to their next samples are   *)
(* equally long, to within the tolerance on each coordinate: on one       *)
(* circle, equal chords are equal steps of the angle.                     *)
SameStep(i, j) ==
    Abs(Dist2(ArcSample(i), ArcSample(i + 1)) - Dist2(ArcSample(j), ArcSample(j + 1)))
        <= 2 * Tol * (Dist1(ArcSample(i), ArcSample(i + 1))
                          + Dist1(ArcSample(j), ArcSample(j + 1)))
               + 4 * Tol * Tol

(* C22: for chord c > 0 and rise f > 0 the arc has radius                 *)
(* R = (f^2 + (c/2)^2) / (2 f) and its centre on the chord's vertical     *)
(* bisector, R - f below the chord, so both chord ends are at distance R  *)
(* from the centre; the front panel samples the arc at 37 equally spaced  *)
(* angles, the first and the last sample at the two chord ends.           *)
C22_ArcRadiusAndSamples ==
    (FrontDone /\ params.box_inner_width_front > 0 /\ call.arc_height > 0) =>
        /\ \A e \in ChordEnds : OnArcCircle(e)
        /\ Len(doc[1].pts) = 3 + 37 + 2
        /\ \A i \in 0..36 : OnArcCircle(ArcSample(i))
        /\ \A i \in 0..35 : SameStep(i, 0)
        /\ \E a \in ChordEnds, b \in ChordEnds :
               a # b /\ Near(ArcSample(0), a) /\ Near(ArcSample(36), b)

C22_Witness ==
    /\ FrontDone
    /\ params.box_inner_width_front = Mm(70)
    /\ call.arc_height = Mm(10)
    /\ call.origin = Pt(Mm(30), Mm(350))
    /\ Abs(4 * ChordRadius - Mm(265)) <= 2
    /\ ChordCentre[2] < ChordY
    /\ Len(doc[1].pts) = 42
    /\ Near(ArcSample(0), Pt(Mm(30), ChordY))
    /\ Near(ArcSample(36), Pt(Mm(100), ChordY))

---------------------------------------------------------------------------
(* Properties: the error export_group raises *)

(* No exporter of the chain succeeded. *)
ChainFailed(chain) == \A k \in 1..Len(chain) : ~Succeeded(chain[k])

(* The failed chains in which the exporter fn was attempted. *)
FailedWith(fn) ==
    {c \in {"dxf", "svg"} :
        ChainFailed(calls[c]) /\ \E k \in 1..Len(calls[c]) : calls[c][k].fn = fn}

(* The messages of the raised error that report a failure of the exporter fn. *)
MessagesOf(fn) == {m \in 1..Len(calls.errors) : calls.errors[m].fn = fn}

(* C23: when every exporter of a format chain fails, the one RuntimeError  *)
(* export_group raises reports the failure of every exporter attempted in  *)
(* that chain, not only the last; the SVG chain is run, and its failures   *)
(* reported, also when the DXF chain failed.                               *)
C23_AllFailuresAggregated ==
    Exported =>
        /\ (ChainFailed(calls.dxf) \/ ChainFailed(calls.svg)) => err = "RuntimeError"
        /\ \A fn \in {"importDXF", "importSVG", "Draft", "Import"} :
               Cardinality(MessagesOf(fn)) >= Cardinality(FailedWith(fn))
        /\ ChainFailed(calls.dxf) => Len(calls.svg) >= 1

---------------------------------------------------------------------------
(* Properties: the TechDraw routine *)

(* A call of _techdraw_pdf has ended, by returning or by raising. *)
TechDrawEnded == pc = "idle" /\ runs > 0

(* The temporary TechDraw objects in the document. *)
TechDrawObjects == {i \in 1..Len(doc) : doc[i].kind \in TechDrawTypes}

(* C24: whenever the TechDraw routine ends, by returning or by raising at  *)
(* any step after it added the page and the template (a template file that *)
(* cannot be resolved included), every temporary page, template and view   *)
(* it added has been removed from the document.                            *)
C24_TempObjectsRemoved == TechDrawEnded => TechDrawObjects = {}

(* The steps of the current call of _techdraw_pdf so far. *)
Steps == calls.pdf

(* C26: every PDF export call on the page happens while the page, its      *)
(* template and its views are in the document; a PDF an export call has    *)
(* written is never deleted later in the same call; no removal of the      *)
(* output PDF and no export call follows the cleanup.                      *)
C26_NoExportAfterCleanup ==
    call.builder = "_techdraw_pdf" =>
        /\ \A i \in 1..Len(Steps) : Steps[i].ev = "export" => Steps[i].live
        /\ \A i \in 1..Len(Steps) : Steps[i].ev = "remove" => ~Steps[i].own
        /\ \A i \in 1..Len(Steps), j \in 1..Len(Steps) :
               (i < j /\ Steps[i].ev = "cleanup") => Steps[j].ev \notin {"export", "remove"}

---------------------------------------------------------------------------
(* Properties: validation in a reused document *)

(* The wheel outer circle and the left rail profile the current run made   *)
(* match the current run's parameters within 0.5 mm (wheel diameter) and   *)
(* 0.8 mm (rail length).                                                   *)
FreshGeometryMatches ==
    /\ groups["wheel"][1].Label = "WHEEL_OUTER"
    /\ ~NotClose(2 * groups["wheel"][1].radius, params.wheel_diameter, 5)
    /\ groups["rail_left"][1].Label = "RAIL_LEFT_PROFILE"
    /\ ~NotClose(BoundLength(groups["rail_left"][1], 1), params.rail_length, 8)

(* C25: after any sequence of runs of main in one process, validation      *)
(* compares the wheel outer circle and the rail profile the current run    *)
(* created with the current run's parameters, and passes whenever that     *)
(* geometry matches them within 0.5 mm and 0.8 mm.                         *)
C25_ValidatesCurrentRun ==
    (args.validate /\ AllBuilt /\ pc # "validate" /\ FreshGeometryMatches) => validated

---------------------------------------------------------------------------
(* Properties: the annotations of a mirrored rail *)

(* The reflection of a point in the vertical line through the origin. *)
Reflected(p) == Pt(2 * call.origin[1] - p[1], p[2])

(* The dimension m is the reflection of the dimension d: its label anchor  *)
(* is the reflected anchor and its two ends are the reflected ends.        *)
DimReflects(m, d) ==
    /\ m.kind = "dim" /\ d.kind = "dim"
    /\ m.pts[3] = Reflected(d.pts[3])
    /\ {m.pts[1], m.pts[2]} = {Reflected(d.pts[1]), Reflected(d.pts[2])}

(* The text m is anchored at the reflection of the anchor of the text d. *)
TextReflects(m, d) ==
    m.kind = "text" /\ d.kind = "text" /\ m.pts[1] = Reflected(d.pts[1])

(* C27: every annotation point make_rails emits for a mirrored rail - the  *)
(* start, end and label anchor of each dimension and the anchor of the     *)
(* text label - is the reflection about the origin of the corresponding    *)
(* point of the unmirrored rail.                                           *)
C27_MirroredAnnotations ==
    (RailsBuilt /\ pc = "done") =>
        /\ Len(doc) = 16
        /\ \A k \in {3, 4, 5, 6, 8} : DimReflects(doc[k + 8], doc[k])
        /\ TextReflects(doc[15], doc[7])

---------------------------------------------------------------------------
(* Properties: SVG tiles *)

(* A direct call of tile_svg_to_a4 on a drawing with a viewBox has returned. *)
TilesDone ==
    /\ pc = "done" /\ call.builder = "tile_svg_to_a4" /\ err = "none"
    /\ call.svg.viewBox # <<>>

(* The source viewBox has no negative extent and the overlap is smaller    *)
(* than both paper dimensions.                                             *)
TileablePage ==
    /\ call.svg.viewBox[3] >= 0 /\ call.svg.viewBox[4] >= 0
    /\ call.overlap_mm < call.paper_size[1] /\ call.overlap_mm < call.paper_size[2]

(* The tiles the call wrote. *)
NewTiles == {f \in files : f.run = runs}

(* The viewBox of the tile written for a row and a column (from 0). *)
TileAt(row, col) == (CHOOSE f \in NewTiles : f.base = TileName(row, col)).viewBox

(* Exactly rows x cols tiles were written, one for every row and column,   *)
(* each of paper size.                                                     *)
TileGrid ==
    /\ call.rows >= 1 /\ call.cols >= 1
    /\ Cardinality(NewTiles) = call.rows * call.cols
    /\ \A row \in 0..(call.rows - 1), col \in 0..(call.cols - 1) :
           /\ \E f \in NewTiles : f.base = TileName(row, col)
           /\ TileAt(row, col)[3] = call.paper_size[1]
           /\ TileAt(row, col)[4] = call.paper_size[2]

(* Where the tile of index k starts along axis d (1: x and columns, 2: y   *)
(* and rows) according to v + k * (paper - overlap).                       *)
ExactStart(d, k) == call.svg.viewBox[d] + k * (call.paper_size[d] - call.overlap_mm)

(* Where the tile of index k starts along axis d in the files written,     *)
(* read from the first row or column.                                      *)
StartOf(d, k) == IF d = 1 THEN TileAt(0, k)[1] ELSE TileAt(k, 0)[2]

(* The number of tiles along axis d. *)
CountOf(d) == IF d = 1 THEN call.cols ELSE call.rows

(* Along axis d the tiles leave no gap and reach from the start to the     *)
(* end of the source viewBox, up to a margin of slack at either end.       *)
CoversAxis(d, slack) ==
    /\ StartOf(d, 0) - call.svg.viewBox[d] <= slack
    /\ \A k \in 0..(CountOf(d) - 2) : StartOf(d, k + 1) <= StartOf(d, k) + call.paper_size[d]
    /\ (call.svg.viewBox[d] + call.svg.viewBox[d + 2])
           - (StartOf(d, CountOf(d) - 1) + call.paper_size[d]) <= slack

(* The width of the strip two neighbouring tiles share along axis d. *)
SharedStrip(d, k) == Max2(0, StartOf(d, k) + call.paper_size[d] - StartOf(d, k + 1))

(* C28: for a source viewBox with vw, vh >= 0 and an overlap smaller than  *)
(* both paper dimensions, exactly rows x cols tiles of paper size are      *)
(* written, their viewBoxes start at (vx + col * (paper_w - overlap),      *)
(* vy + row * (paper_h - overlap)), together they cover every point of the *)
(* source viewBox, and adjacent tiles share a strip exactly overlap wide.  *)
C28_TilesCoverSource ==
    (TilesDone /\ TileablePage) =>
        /\ TileGrid
        /\ \A row \in 0..(call.rows - 1), col \in 0..(call.cols - 1) :
               /\ TileAt(row, col)[1] = ExactStart(1, col)
               /\ TileAt(row, col)[2] = ExactStart(2, row)
        /\ \A d \in 1..2 :
               /\ CoversAxis(d, 0)
               /\ \A k \in 0..(CountOf(d) - 2) : SharedStrip(d, k) = call.overlap_mm

(* C28 as amended: the overlap is not negative, and the starts are the     *)
(* ones the files store, rounded to three decimals; to that rounding       *)
(* (half of 0.001 mm for a start, 0.001 mm for a strip) the tiles cover    *)
(* the source viewBox and share strips overlap wide.                       *)
C28_TilesCoverSourceRounded ==
    (TilesDone /\ TileablePage /\ call.overlap_mm >= 0) =>
        /\ TileGrid
        /\ \A row \in 0..(call.rows - 1), col \in 0..(call.cols - 1) :
               /\ TileAt(row, col)[1] % TileRes = 0
               /\ TileAt(row, col)[2] % TileRes = 0
               /\ 2 * Abs(TileAt(row, col)[1] - ExactStart(1, col)) <= TileRes
               /\ 2 * Abs(TileAt(row, col)[2] - ExactStart(2, row)) <= TileRes
        /\ \A d \in 1..2 :
               /\ 2 * (StartOf(d, 0) - call.svg.viewBox[d]) <= TileRes
               /\ \A k \in 0..(CountOf(d) - 2) :
                      StartOf(d, k + 1) <= StartOf(d, k) + call.paper_size[d]
               /\ 2 * ((call.svg.viewBox[d] + call.svg.viewBox[d + 2])
                         - (StartOf(d, CountOf(d) - 1) + call.paper_size[d])) <= TileRes
               /\ \A k \in 0..(CountOf(d) - 2) :
                      Abs(SharedStrip(d, k) - call.overlap_mm) <= TileRes

C28_Witness ==
    /\ TilesDone
    /\ call.svg.viewBox = <<4 - TileMm(20), TileMm(5) + 3, TileMm(700), TileMm(600)>>
    /\ call.overlap_mm = TileMm(6) + 6
    /\ call.rows = 3 /\ call.cols = 4
    /\ Cardinality(NewTiles) = 12
    /\ TileAt(2, 3)[1] # ExactStart(1, 3)
    /\ TileAt(2, 3)[1] + call.paper_size[1] > 4 - TileMm(20) + TileMm(700)

=============================================================================
